---- MODULE Spec2Model ----
(***************************************************************************)
(* phishing-live: the scorer (cmd/server) and the statistics builder       *)
(* (cmd/trainer).                                                          *)
(*                                                                         *)
(* Numbers: the Go code computes with float64.  The model computes with    *)
(* exact rationals <<n, d>> (d > 0, lowest terms); float rounding is not   *)
(* modelled.  Text: a string is a sequence of lexemes (words, tags,        *)
(* tokens of a header); strings.ToLower, strings.Contains and the regular  *)
(* expressions are computed per lexeme from the tables below.              *)
(***************************************************************************)
EXTENDS Integers, Sequences, FiniteSets, TLC

VARIABLES
    req,          \* SpecScore: the inputs of one analyzeEmail call
    res,          \* SpecScore: the AnalysisResult of that call, or None
    mimeMsg,      \* SpecMime: the *mail.Message handed to extractEmailBody
    mimeOut,      \* SpecMime: the parses and extractions so far, in order
    statsFile,    \* Spec: data/linguistic_stats.json as the server finds it
    globalStats,  \* Spec: var globalStats
    memoryStore,  \* Spec: var memoryStore, file name -> uploaded content
    memoryMutex,  \* Spec: var memoryMutex, its writer and its readers
    pc,           \* Spec: where main, the cleanup goroutine and each handler stand
    local,        \* Spec: the local variables of each request handler
    corpus,       \* SpecTrainer: the input file's kind and header, the dictionary
    trainerPc,    \* SpecTrainer: where the trainer stands
    accum,        \* SpecTrainer: the accumulators of analyzeCSV / analyzeJSON
    artifact,     \* SpecTrainer: linguistic_stats.json as the trainer leaves it
    rows,         \* SpecTrainer: how many rows were read, were valid, were scam
    netIn,        \* SpecNet: the From domain and what the resolvers will answer
    netPc,        \* SpecNet: where the network checks of analyzeEmail stand
    lookups,      \* SpecNet: the lookups sent so far, in order
    netOut        \* SpecNet: the fields of riskFactors and breakdown they set

scoreVars == <<req, res>>
mimeVars == <<mimeMsg, mimeOut>>
serverVars == <<statsFile, globalStats, memoryStore, memoryMutex, pc, local>>
trainerVars == <<corpus, trainerPc, accum, artifact, rows>>
netVars == <<netIn, netPc, lookups, netOut>>
vars == <<req, res, mimeMsg, mimeOut, statsFile, globalStats, memoryStore,
          memoryMutex, pc, local, corpus, trainerPc, accum, artifact, rows,
          netIn, netPc, lookups, netOut>>

\* A variable that holds no value yet holds the empty sequence; a value v is
\* held as <<v>>.
None == <<>>

(***************************************************************************)
(* float64 arithmetic, as exact rationals                                  *)
(***************************************************************************)
Abs(x) == IF x < 0 THEN -x ELSE x

RECURSIVE Gcd(_, _)
Gcd(a, b) == IF b = 0 THEN a ELSE Gcd(b, a % b)

Rat(n, d) ==
    LET g == Gcd(Abs(n), d)
    IN  IF n = 0 THEN <<0, 1>> ELSE <<n \div g, d \div g>>

RInt(i) == <<i, 1>>
RAdd(a, b) == Rat(a[1] * b[2] + b[1] * a[2], a[2] * b[2])
RSub(a, b) == Rat(a[1] * b[2] - b[1] * a[2], a[2] * b[2])
RMul(a, b) == Rat(a[1] * b[1], a[2] * b[2])
RDivInt(a, k) == Rat(a[1], a[2] * k)
RLt(a, b) == a[1] * b[2] < b[1] * a[2]
RLe(a, b) == a[1] * b[2] <= b[1] * a[2]
RGt(a, b) == RLt(b, a)

(***************************************************************************)
(* Strings                                                                 *)
(***************************************************************************)
\* strings.ToLower, per lexeme: the lexemes of the model that hold an
\* upper-case letter, with their lower-case form.
ToLowerLexeme(t) ==
    CASE t = "Urgent:" -> "urgent:"
      [] t = "SUSPENDED" -> "suspended"
      [] t = "NOW" -> "now"
      [] t = "Hello" -> "hello"
      [] t = "SPF=SoftFail" -> "spf=softfail"
      [] t = "Bank.COM" -> "bank.com"
      [] t = "Konto" -> "konto"
      [] t = "Bob" -> "bob"
      [] t = "Ihr" -> "ihr"
      [] t = "Sie" -> "sie"
      [] t = "Ihre" -> "ihre"
      [] t = "Daten" -> "daten"
      [] t = "Spam" -> "spam"
      [] t = "PHISH" -> "phish"
      [] t = "Subject" -> "subject"
      [] t = "Verify" -> "verify"
      [] OTHER -> t

ToLower(s) == [i \in 1..Len(s) |-> ToLowerLexeme(s[i])]

\* The maximal letter runs of a lower-case lexeme ("urgent:" holds the run
\* "urgent"); a lexeme of letters only is one run.
LetterRuns(t) ==
    CASE t = "urgent:" -> <<"urgent">>
      [] t = "spf=softfail" -> <<"spf", "softfail">>
      [] t = "bank.com" -> <<"bank", "com">>
      [] t \in {"=", "!!", "2024"} -> <<>>
      [] OTHER -> <<t>>

\* Upper-case ASCII letters of a lexeme.
UpperCount(t) ==
    CASE t = "SUSPENDED" -> 9
      [] t = "NOW" -> 3
      [] t = "Bank.COM" -> 4
      [] t = "SPF=SoftFail" -> 5
      [] t = "PHISH" -> 5
      [] t \in {"Urgent:", "Hello", "Konto", "Bob", "Ihr", "Sie", "Ihre", "Daten",
                "Spam", "Subject", "Verify"} -> 1
      [] OTHER -> 0

RECURSIVE SumLen(_)
SumLen(runs) == IF runs = <<>> THEN 0 ELSE Len(Head(runs)) + SumLen(Tail(runs))

\* ASCII letters of a lexeme.
LetterCount(t) == SumLen(LetterRuns(ToLowerLexeme(t)))

\* strings.Contains(s, sub) for a pattern without blanks: some lexeme of s
\* is the pattern or holds it inside.
Infixes(t) ==
    CASE t = "urgent:" -> {"urgent"}
      [] t = "accounts" -> {"account"}
      [] t = "spf=failed" -> {"spf=fail"}
      [] t = "spf=fail;" -> {"spf=fail"}
      [] t = "spf=pass;" -> {"spf=pass"}
      [] t = "dkim=pass;" -> {"dkim=pass"}
      [] OTHER -> {}

Contains(s, sub) ==
    \E i \in 1..Len(s) : s[i] = sub \/ sub \in Infixes(s[i])

(***************************************************************************)
(* cmd/server: the loaded statistics                                       *)
(***************************************************************************)
\* A WordFreq value.
WordFreq(w, c, p) == [Word |-> w, Count |-> c, Percent |-> p]

\* The zero value of LinguisticStats (var globalStats before the load).
ZeroStats == [TotalEmails |-> 0, TopBodyWords |-> <<>>, TopSubjectWords |-> <<>>]

(***************************************************************************)
(* cmd/server: analyzeEmail, 1. header analysis                            *)
(***************************************************************************)
\* AuthAnalysis without the flat base penalty of a missing header.
AuthAnalysisNoBase(authResults) ==
    [SPFStatus |-> "unknown", DKIMStatus |-> "unknown", DMARCStatus |-> "unknown",
     AuthFailPenalty |-> 0, AuthPassBonus |-> 0, BaseScore |-> 0]

\* Lines 363-389: Authentication-Results.
AuthAnalysis(authResults) ==
    LET lowerAuth == ToLower(authResults)
        spf == IF Contains(lowerAuth, "spf=fail") \/ Contains(lowerAuth, "spf=softfail")
               THEN "fail"
               ELSE IF Contains(lowerAuth, "spf=pass") THEN "pass" ELSE "unknown"
        dkim == IF Contains(lowerAuth, "dkim=fail") THEN "fail"
                ELSE IF Contains(lowerAuth, "dkim=pass") THEN "pass" ELSE "unknown"
        dmarc == IF Contains(lowerAuth, "dmarc=fail") THEN "fail"
                 ELSE IF Contains(lowerAuth, "dmarc=pass") THEN "pass" ELSE "unknown"
    IN  IF authResults # <<>>
        THEN [SPFStatus |-> spf, DKIMStatus |-> dkim, DMARCStatus |-> dmarc,
              AuthFailPenalty |-> (IF spf = "fail" THEN 30 ELSE 0)
                                  + (IF dkim = "fail" THEN 30 ELSE 0)
                                  + (IF dmarc = "fail" THEN 20 ELSE 0),
              AuthPassBonus |-> (IF spf = "pass" THEN 10 ELSE 0)
                                + (IF dkim = "pass" THEN 10 ELSE 0)
                                + (IF dmarc = "pass" THEN 5 ELSE 0),
              BaseScore |-> 0]
        ELSE [SPFStatus |-> "unknown", DKIMStatus |-> "unknown",
              DMARCStatus |-> "unknown",
              AuthFailPenalty |-> 0, AuthPassBonus |-> 0, BaseScore |-> 10]

\* mime.WordDecoder.DecodeHeader on one RFC 2047 encoded word.
EncodedWords ==
    [t \in {"=?UTF-8?Q?Urgent:?=", "=?UTF-8?Q?verify?="} |->
        IF t = "=?UTF-8?Q?Urgent:?=" THEN "Urgent:" ELSE "verify"]

\* Lines 844-852.  "=?X-NONE?Q?verify?=" is an encoded word of a character
\* set the decoder does not handle: DecodeHeader fails on it.
decodeHeader(header) ==
    IF \E i \in 1..Len(header) : header[i] = "=?X-NONE?Q?verify?="
    THEN header
    ELSE [i \in 1..Len(header) |->
            IF header[i] \in DOMAIN EncodedWords THEN EncodedWords[header[i]]
            ELSE header[i]]

Indexes(s, t) == {i \in 1..Len(s) : s[i] = t}
Min(S) == CHOOSE x \in S : \A y \in S : x <= y
Max(S) == CHOOSE x \in S : \A y \in S : x >= y

\* Lines 855-862.
extractEmail(s) ==
    LET lt == Indexes(s, "<")
        gt == Indexes(s, ">")
    IN  IF lt # {} /\ gt # {} /\ Max(gt) > Min(lt)
        THEN SubSeq(s, Min(lt) + 1, Max(gt) - 1)
        ELSE s

RECURSIVE Join(_)
Join(s) == IF s = <<>> THEN "" ELSE ToLowerLexeme(Head(s)) \o Join(Tail(s))

\* Lines 864-870: strings.Split(email, "@") has two parts iff email holds
\* exactly one "@".
getDomain(email) ==
    LET at == Indexes(email, "@")
    IN  IF Cardinality(at) = 1
        THEN Join(SubSeq(email, Min(at) + 1, Len(email)))
        ELSE ""

\* Lines 391-414.
MismatchAnalysis(msg) ==
    LET from == decodeHeader(msg.From)
        returnPath == decodeHeader(msg.ReturnPath)
        fromAddr == extractEmail(from)
        returnPathAddr == extractEmail(returnPath)
        fromDomain == getDomain(fromAddr)
        rpDiff == /\ fromAddr # <<>>
                  /\ returnPathAddr # <<>>
                  /\ fromDomain # getDomain(returnPathAddr)
                  /\ getDomain(returnPathAddr) # ""
        replyTo == decodeHeader(msg.ReplyTo)
        replyToDomain == getDomain(extractEmail(replyTo))
        rtDiff == /\ replyTo # <<>>
                  /\ fromDomain # replyToDomain
                  /\ replyToDomain # ""
    IN  [Domain |-> fromDomain,
         FromReturnPathDiff |-> rpDiff,
         ReplyToDiff |-> rtDiff,
         MismatchPenalty |-> (IF rpDiff THEN 25 ELSE 0) + (IF rtDiff THEN 20 ELSE 0)]

\* Line 419.
suspiciousKeywords ==
    <<"urgent", "verify", "account", "suspended", "winner", "lottery",
      "password", "profit", "margin">>

\* KeywordAnalysis with the sum of the keyword penalties capped.
KeywordAnalysisCapped(subject) ==
    LET hit == SelectSeq(suspiciousKeywords,
                         LAMBDA kw : Contains(ToLower(subject), kw))
    IN  [Suspiciouskeywords |-> hit,
         KeywordPenalty |-> IF 15 * Len(hit) > 30 THEN 30 ELSE 15 * Len(hit)]

\* Lines 416-425.
KeywordAnalysis(subject) ==
    LET hit == SelectSeq(suspiciousKeywords,
                         LAMBDA kw : Contains(ToLower(subject), kw))
    IN  [Suspiciouskeywords |-> hit, KeywordPenalty |-> 15 * Len(hit)]

(***************************************************************************)
(* cmd/server: analyzeEmail, active network checks                         *)
(***************************************************************************)
\* Lines 874-884.
trusted ==
    {"google.com", "gmail.com", "microsoft.com", "outlook.com", "hotmail.com",
     "apple.com", "icloud.com", "amazon.com", "linkedin.com", "paypal.com",
     "slack.com", "acquire.com", "reddit.com", "redditmail.com"}

\* strings.HasSuffix(domain, "." + t), for the domains of the model.
HasDotSuffix(domain, t) == domain = "mail.paypal.com" /\ t = "paypal.com"

\* Lines 872-892.
checkDomainTrust(domain) ==
    IF \E t \in trusted : domain = t \/ HasDotSuffix(domain, t)
    THEN "Trustworthy"
    ELSE "Neutral"

\* What the DoH endpoint can answer (client.Get, the status code, the JSON
\* decode, doh.Status and doh.Answer).
DohAnswers ==
    {"transport_error", "http_error", "undecodable", "nxdomain",
     "noerror_empty", "servfail", "sentinel", "address"}

\* What net.LookupHost can answer.
SysAnswers == {"no_such_host", "other_error", "sentinel", "address", "empty"}

\* Lines 904-966.  doh and sys are the answers of the two resolvers.
checkBlacklist(doh, sys) ==
    LET status ==
            IF doh \in {"transport_error", "http_error"} THEN "Fallback"
            ELSE IF doh = "sentinel" THEN "Fallback"
            ELSE "Unknown"
    IN  IF doh = "nxdomain" THEN "Clean"
        ELSE IF doh = "address" THEN "Listed"
        ELSE IF status = "Fallback"
        THEN CASE sys = "no_such_host" -> "Clean"
               [] sys = "other_error" -> "Error"
               [] sys = "sentinel" -> "Error (Blocked)"
               [] sys = "address" -> "Listed"
               [] OTHER -> "Clean"
        ELSE "Clean"

\* Lines 427-471.  net.mx is the answer of net.LookupMX, net.spf and
\* net.dmarc the records net.LookupTXT returns ("" when none).
NetworkAnalysis(fromDomain, net) ==
    IF fromDomain # ""
    THEN [HasMXRecords |-> net.mx = "found",
          NoMXPenalty |-> IF net.mx = "found" THEN 0 ELSE 50,
          LiveSPFRecord |-> net.spf,
          LiveDMARCRecord |-> net.dmarc,
          DomainTrustScore |-> checkDomainTrust(fromDomain),
          BlacklistStatus |-> checkBlacklist(net.doh, net.sys)]
    ELSE [HasMXRecords |-> FALSE,
          NoMXPenalty |-> 0,
          LiveSPFRecord |-> "",
          LiveDMARCRecord |-> "",
          DomainTrustScore |-> "Unknown",
          BlacklistStatus |-> "Unknown"]

\* A penalty for a domain the blacklist lists.
DisposablePenaltyForListed(netw) == IF netw.BlacklistStatus = "Listed" THEN 10 ELSE 0

\* Lines 91 and 354-359: breakdown.DisposablePenalty is never assigned, and
\* no reputation signal of the network section is read for it.
DisposablePenalty(netw) == 0

(***************************************************************************)
(* cmd/server: analyzeEmail, 2. and 3. linguistic analysis                 *)
(***************************************************************************)
\* The lexemes the pattern <[^>]*> matches.
Tags == {"<b>", "</b>", "<p>", "<html>"}

\* Line 475: every tag becomes a blank.
CleanBody(body) == SelectSeq(body, LAMBDA t : t \notin Tags)

\* len(s) of a text whose lexemes are one blank apart.
ByteLen(s) == SumLen(s) + (IF Len(s) > 0 THEN Len(s) - 1 ELSE 0)

\* whatlanggo.Detect: a function of the text alone.
DetectLang(text) ==
    IF \E i \in 1..Len(text) : text[i] \in {"Konto", "gesperrt", "wurde", "bitte"}
    THEN "German"
    ELSE "English"

\* Line 486.
TranslateMinLen == 50

\* Lines 482-501.  net.translate is the answer of the translation service:
\* an error, or the translated text.
AnalysisText(cleanBody, net) ==
    IF DetectLang(cleanBody) # "English" /\ ByteLen(cleanBody) > TranslateMinLen
    THEN IF net.translate.ok THEN net.translate.text ELSE cleanBody
    ELSE cleanBody

TranslatedBody(cleanBody, net) ==
    IF /\ DetectLang(cleanBody) # "English"
       /\ ByteLen(cleanBody) > TranslateMinLen
       /\ net.translate.ok
    THEN net.translate.text
    ELSE <<>>

DetectedLang(cleanBody) ==
    IF DetectLang(cleanBody) # "English" /\ ByteLen(cleanBody) > TranslateMinLen
    THEN DetectLang(cleanBody)
    ELSE "English"

\* regexp [\p{L}]{3,} on the lower-cased text, as the set the code builds.
RECURSIVE WordSet(_)
WordSet(lower) ==
    IF lower = <<>> THEN {}
    ELSE LET runs == LetterRuns(Head(lower))
         IN  {runs[i] : i \in {j \in 1..Len(runs) : Len(runs[j]) >= 3}}
             \cup WordSet(Tail(lower))

\* Lines 518-537.
ignoredWords ==
    [w \in {"email", "service", "customer", "access", "details", "information",
            "account", "click", "security", "update", "support", "team",
            "contact", "please", "address", "view", "rights", "reserved"} |->
        w \notin {"account", "click", "security"}]

IsIgnored(w) == w \in DOMAIN ignoredWords /\ ignoredWords[w]

\* Lines 576-578.
ignoredSubjectWords == {"utf"}

\* fmt %.0f: round to the nearest integer, ties to even.
RoundHalfEven(x) ==
    LET q == x[1] \div x[2]
        r == x[1] % x[2]
    IN  IF 2 * r < x[2] THEN q
        ELSE IF 2 * r > x[2] THEN q + 1
        ELSE IF q % 2 = 0 THEN q ELSE q + 1

\* Line 543 and line 582.
BodyThreshold == 7
SubjectThreshold == 5
\* Lines 558-559.
BodyWordCap == 15

BodyMatches(stat, wordSet) ==
    /\ RGt(stat.Percent, RInt(BodyThreshold))
    /\ stat.Word \in wordSet
    /\ ~IsIgnored(stat.Word)

\* BodyWordPenalty without the cap per word.
BodyWordPenaltyUncapped(stat) == RDivInt(stat.Percent, 2)

BodyWordPenalty(stat) ==
    LET penalty == RDivInt(stat.Percent, 2)
    IN  IF RGt(penalty, RInt(BodyWordCap)) THEN RInt(BodyWordCap) ELSE penalty

\* Lines 540-564: the loop over globalStats.TopBodyWords.
RECURSIVE BodyLoop(_, _, _)
BodyLoop(table, wordSet, acc) ==
    IF table = <<>> THEN acc
    ELSE LET stat == Head(table)
         IN  IF BodyMatches(stat, wordSet)
             THEN BodyLoop(Tail(table), wordSet,
                    [triggers |-> Append(acc.triggers,
                                    [Text |-> <<"Enthaelt", stat.Word>>,
                                     Explanation |-> RoundHalfEven(stat.Percent)]),
                     penalty |-> RAdd(acc.penalty, BodyWordPenalty(stat))])
             ELSE BodyLoop(Tail(table), wordSet, acc)

SubjectMatches(stat, subjectWordSet) ==
    /\ RGt(stat.Percent, RInt(SubjectThreshold))
    /\ stat.Word \in subjectWordSet
    /\ stat.Word \notin ignoredSubjectWords

\* Lines 580-596: the loop over globalStats.TopSubjectWords.
RECURSIVE SubjectLoop(_, _, _)
SubjectLoop(table, subjectWordSet, acc) ==
    IF table = <<>> THEN acc
    ELSE LET stat == Head(table)
         IN  IF SubjectMatches(stat, subjectWordSet)
             THEN SubjectLoop(Tail(table), subjectWordSet,
                    [triggers |-> Append(acc.triggers,
                                    [Text |-> <<"Betreff:", stat.Word>>,
                                     Explanation |-> RoundHalfEven(stat.Percent)]),
                     penalty |-> RAdd(acc.penalty, RDivInt(stat.Percent, 3))])
             ELSE SubjectLoop(Tail(table), subjectWordSet, acc)

RECURSIVE SumUpper(_)
SumUpper(s) == IF s = <<>> THEN 0 ELSE UpperCount(Head(s)) + SumUpper(Tail(s))

RECURSIVE SumLetters(_)
SumLetters(s) == IF s = <<>> THEN 0 ELSE LetterCount(Head(s)) + SumLetters(Tail(s))

\* Line 612.
ShoutingThreshold == 25

\* ShoutingAnalysis with a ratio of exactly the threshold counted as shouting.
ShoutingAnalysisInclusive(cleanBody) ==
    LET upperCount == SumUpper(cleanBody)
        totalChars == SumLetters(cleanBody)
        score == IF totalChars > 0 THEN Rat(upperCount * 100, totalChars) ELSE RInt(0)
        shouting == totalChars > 0 /\ RLe(RInt(ShoutingThreshold), score)
    IN  [ShoutingScore |-> score,
         penalty |-> IF shouting THEN 15 ELSE 0,
         triggers |-> IF shouting
                      THEN <<[Text |-> <<"Exzessive", "Grossschreibung", "(Shouting)">>,
                              Explanation |-> RoundHalfEven(score)]>>
                      ELSE <<>>]

\* Lines 598-619.
ShoutingAnalysis(cleanBody) ==
    LET upperCount == SumUpper(cleanBody)
        totalChars == SumLetters(cleanBody)
        score == IF totalChars > 0 THEN Rat(upperCount * 100, totalChars) ELSE RInt(0)
        shouting == totalChars > 0 /\ RGt(score, RInt(ShoutingThreshold))
    IN  [ShoutingScore |-> score,
         penalty |-> IF shouting THEN 15 ELSE 0,
         triggers |-> IF shouting
                      THEN <<[Text |-> <<"Exzessive", "Grossschreibung", "(Shouting)">>,
                              Explanation |-> RoundHalfEven(score)]>>
                      ELSE <<>>]

(***************************************************************************)
(* cmd/server: analyzeEmail, final score calculation                       *)
(***************************************************************************)
\* Lines 629, 636 and 643: the ceilings of the three raw totals.
TechMax == 40
BodyMax == 50
SubjectMax == 30

\* TechRaw without the floor at 0.
TechRawNoFloor(b) ==
    LET techRaw == b.BaseScore + b.AuthFailPenalty - b.AuthPassBonus
                   + b.MismatchPenalty + b.NoMXPenalty + b.DisposablePenalty
    IN  IF techRaw > TechMax THEN TechMax ELSE techRaw

\* Lines 624-631.
TechRaw(b) ==
    LET techRaw == b.BaseScore + b.AuthFailPenalty - b.AuthPassBonus
                   + b.MismatchPenalty + b.NoMXPenalty + b.DisposablePenalty
    IN  IF techRaw < 0 THEN 0
        ELSE IF techRaw > TechMax THEN TechMax
        ELSE techRaw

\* Lines 635-638.
BodyRaw(b) ==
    IF RGt(b.LinguisticPenalty, RInt(BodyMax)) THEN RInt(BodyMax)
    ELSE b.LinguisticPenalty

\* SubjectRaw from the fixed keywords alone.
SubjectRawKeywordsOnly(b) ==
    IF b.KeywordPenalty > SubjectMax THEN RInt(SubjectMax) ELSE RInt(b.KeywordPenalty)

\* Lines 642-645.
SubjectRaw(b) ==
    LET subjectRaw == RAdd(RInt(b.KeywordPenalty), b.SubjectLinguisticPenalty)
    IN  IF RGt(subjectRaw, RInt(SubjectMax)) THEN RInt(SubjectMax) ELSE subjectRaw

\* Lines 632, 639 and 646: raw / max * 100.
Scale(raw, max) == RMul(RDivInt(raw, max), RInt(100))

\* WeightedTotal with the subject weighted like the body.
WeightedTotalWrongWeight(techScore, bodyScore, subjectScore) ==
    LET total == RAdd(RAdd(RMul(techScore, Rat(40, 100)),
                           RMul(bodyScore, Rat(35, 100))),
                      RMul(subjectScore, Rat(35, 100)))
    IN  IF RGt(total, RInt(100)) THEN RInt(100) ELSE total

\* Lines 649-652: tech * 0.40 + body * 0.35 + subject * 0.25, at most 100.
WeightedTotal(techScore, bodyScore, subjectScore) ==
    LET total == RAdd(RAdd(RMul(techScore, Rat(40, 100)),
                           RMul(bodyScore, Rat(35, 100))),
                      RMul(subjectScore, Rat(25, 100)))
    IN  IF RGt(total, RInt(100)) THEN RInt(100) ELSE total

\* Lines 656-663: strings.HasPrefix(t.Text, "Betreff:").
IsSubjectTrigger(t) == t.Text[1] = "Betreff:"

\* Lines 353-698.  stats is globalStats as the call reads it; net holds the
\* answers of the resolvers and of the translation service.  The preview
\* fields (FileName, EmailBody, HTMLBody, Headers) are left out.
analyzeEmail(stats, msg, body, net) ==
    LET auth == AuthAnalysis(msg.AuthenticationResults)
        mism == MismatchAnalysis(msg)
        subject == decodeHeader(msg.Subject)
        kw == KeywordAnalysis(subject)
        netw == NetworkAnalysis(mism.Domain, net)
        cleanBody == CleanBody(body)
        wordSet == WordSet(ToLower(AnalysisText(cleanBody, net)))
        bodyAcc == BodyLoop(stats.TopBodyWords, wordSet,
                            [triggers |-> <<>>, penalty |-> RInt(0)])
        subjAcc == SubjectLoop(stats.TopSubjectWords, WordSet(ToLower(subject)),
                               [triggers |-> <<>>, penalty |-> RInt(0)])
        shout == ShoutingAnalysis(cleanBody)
        LinguisticTriggers == bodyAcc.triggers \o subjAcc.triggers \o shout.triggers
        b == [BaseScore |-> auth.BaseScore,
              AuthFailPenalty |-> auth.AuthFailPenalty,
              AuthPassBonus |-> auth.AuthPassBonus,
              MismatchPenalty |-> mism.MismatchPenalty,
              KeywordPenalty |-> kw.KeywordPenalty,
              NoMXPenalty |-> netw.NoMXPenalty,
              DisposablePenalty |-> DisposablePenalty(netw),
              LinguisticPenalty |-> RAdd(bodyAcc.penalty, RInt(shout.penalty)),
              SubjectLinguisticPenalty |-> subjAcc.penalty]
        techScore == Scale(RInt(TechRaw(b)), TechMax)
        bodyScore == Scale(BodyRaw(b), BodyMax)
        subjectScore == Scale(SubjectRaw(b), SubjectMax)
        total == WeightedTotal(techScore, bodyScore, subjectScore)
    IN  [DetectedLang |-> DetectedLang(cleanBody),
         TranslatedBody |-> TranslatedBody(cleanBody, net),
         ScamProbability |-> total,
         SafeProbability |-> RSub(RInt(100), total),
         TechScore |-> techScore,
         BodyScore |-> bodyScore,
         SubjectScore |-> subjectScore,
         RiskFactors |->
            [SPFStatus |-> auth.SPFStatus,
             DKIMStatus |-> auth.DKIMStatus,
             DMARCStatus |-> auth.DMARCStatus,
             FromReturnPathDiff |-> mism.FromReturnPathDiff,
             ReplyToDiff |-> mism.ReplyToDiff,
             Suspiciouskeywords |-> kw.Suspiciouskeywords,
             Domain |-> mism.Domain,
             HasMXRecords |-> netw.HasMXRecords,
             LiveSPFRecord |-> netw.LiveSPFRecord,
             LiveDMARCRecord |-> netw.LiveDMARCRecord,
             DomainTrustScore |-> netw.DomainTrustScore,
             BlacklistStatus |-> netw.BlacklistStatus,
             IsDisposable |-> FALSE,
             LinguisticTriggers |-> LinguisticTriggers,
             ShoutingScore |-> shout.ShoutingScore],
         ScoreBreakdown |-> b @@ [TotalScore |-> total],
         BodyTriggers |-> SelectSeq(LinguisticTriggers, LAMBDA t : ~IsSubjectTrigger(t)),
         SubjectTriggers |-> SelectSeq(LinguisticTriggers, IsSubjectTrigger)]

(***************************************************************************)
(* cmd/server: the MIME body extractor                                     *)
(*                                                                         *)
(* An entity (a message or a part) is a record: its Content-Type and       *)
(* Content-Transfer-Encoding header values, its text (single part), or     *)
(* the boundary its body is delimited with and its parts (multipart).  A   *)
(* part the multipart reader cannot read has malformed = TRUE.  drained    *)
(* says that the io.Reader over the body has been read to its end.         *)
(***************************************************************************)
Entity(ct, cte, text, boundary, parts) ==
    [ContentType |-> ct, CTE |-> cte, text |-> text, boundary |-> boundary,
     parts |-> parts, malformed |-> FALSE, drained |-> FALSE]

TextEntity(ct, cte, text) == Entity(ct, cte, text, "", <<>>)

\* The Content-Type values of multipart entities nested one in another, each
\* level with a boundary of its own.
LevelBoundary == <<"n1", "n2", "n3", "n4", "n5", "n6", "n7", "n8">>
LevelContentType ==
    <<"multipart/mixed; boundary=n1", "multipart/mixed; boundary=n2",
      "multipart/mixed; boundary=n3", "multipart/mixed; boundary=n4",
      "multipart/mixed; boundary=n5", "multipart/mixed; boundary=n6",
      "multipart/mixed; boundary=n7", "multipart/mixed; boundary=n8">>

\* mime.ParseMediaType of the Content-Type values of the model: the media
\* type in lower case and the boundary parameter, or an error.
ParseMediaType(contentType) ==
    CASE contentType \in {"text/plain", "TEXT/PLAIN", "text/plain; charset=utf-8"} ->
            [err |-> FALSE, mediaType |-> "text/plain", boundary |-> ""]
      [] contentType = "text/html" ->
            [err |-> FALSE, mediaType |-> "text/html", boundary |-> ""]
      [] contentType = "image/png" ->
            [err |-> FALSE, mediaType |-> "image/png", boundary |-> ""]
      [] contentType = "multipart/alternative; boundary=b1" ->
            [err |-> FALSE, mediaType |-> "multipart/alternative", boundary |-> "b1"]
      [] contentType = "multipart/mixed; boundary=b2" ->
            [err |-> FALSE, mediaType |-> "multipart/mixed", boundary |-> "b2"]
      [] contentType = "multipart/mixed" ->
            [err |-> FALSE, mediaType |-> "multipart/mixed", boundary |-> ""]
      [] contentType = "text/plain; charset" ->
            \* ErrInvalidMediaParameter: the media type is returned with
            \* the error.
            [err |-> TRUE, mediaType |-> "text/plain", boundary |-> ""]
      [] contentType \in {LevelContentType[k] : k \in DOMAIN LevelContentType} ->
            [err |-> FALSE, mediaType |-> "multipart/mixed",
             boundary |-> LevelBoundary[CHOOSE k \in DOMAIN LevelContentType :
                                            LevelContentType[k] = contentType]]
      [] OTHER -> [err |-> TRUE, mediaType |-> "", boundary |-> ""]

IsMultipart(mediaType) == mediaType \in {"multipart/alternative", "multipart/mixed"}

\* quotedprintable.Reader, per lexeme.
QPDecodeLexeme(t) ==
    CASE t = "a=3Db" -> "a=b"
      [] t = "=3D41" -> "=41"
      [] t = "=41" -> "A"
      [] t = "sus=\npended" -> "suspended"
      [] OTHER -> t

\* Lines 781-791.
decodeContent(content, transferEncoding) ==
    IF transferEncoding \in {"quoted-printable", "Quoted-Printable"}
    THEN [i \in 1..Len(content) |-> QPDecodeLexeme(content[i])]
    ELSE content

\* io.ReadAll of an entity's body.
ReadAll(e) == IF e.drained THEN <<>> ELSE e.text

\* multipart.Reader.NextPart: a quoted-printable part is decoded by the
\* reader, which also removes the part's Content-Transfer-Encoding header.
NextPart(p) ==
    IF p.CTE \in {"quoted-printable", "Quoted-Printable"}
    THEN [p EXCEPT !.CTE = "", !.text = decodeContent(p.text, "quoted-printable")]
    ELSE p

\* The parts multipart.NewReader(r, boundary) yields before io.EOF or an
\* error ends the loop of lines 733-740: none when the reader is drained or
\* the body is not delimited with the declared boundary, else the parts up
\* to the first one that cannot be read.
RECURSIVE ReadableParts(_)
ReadableParts(parts) ==
    IF parts = <<>> \/ Head(parts).malformed THEN <<>>
    ELSE <<NextPart(Head(parts))>> \o ReadableParts(Tail(parts))

LooksLikeHTML(content) ==
    \E i \in 1..Len(content) :
        ToLowerLexeme(content[i]) \in {"<html>", "<div>", "<body>"}

\* Lines 729-779.
RECURSIVE parseMultipart(_, _)
RECURSIVE PartLoop(_, _, _)
PartLoop(parts, htmlBody, textBody) ==
    IF parts = <<>>
    THEN IF htmlBody # <<>> THEN htmlBody ELSE textBody
    ELSE LET p == Head(parts)
             mt == ParseMediaType(p.ContentType)
         IN  IF IsMultipart(mt.mediaType)
             THEN LET subContent == parseMultipart(p, mt.boundary)
                  IN  IF LooksLikeHTML(subContent)
                      THEN PartLoop(Tail(parts), subContent, textBody)
                      ELSE IF textBody = <<>>
                      THEN PartLoop(Tail(parts), htmlBody, subContent)
                      ELSE PartLoop(Tail(parts), htmlBody, textBody)
             ELSE IF mt.mediaType = "text/html"
             THEN PartLoop(Tail(parts), decodeContent(ReadAll(p), p.CTE), textBody)
             ELSE IF mt.mediaType = "text/plain"
             THEN PartLoop(Tail(parts), htmlBody, decodeContent(ReadAll(p), p.CTE))
             ELSE PartLoop(Tail(parts), htmlBody, textBody)

parseMultipart(r, boundary) ==
    IF r.drained \/ r.boundary # boundary \/ boundary = ""
    THEN <<>>
    ELSE PartLoop(ReadableParts(r.parts), <<>>, <<>>)

\* Lines 729-762: the number of parseMultipart frames on the stack at the
\* deepest point of the call parseMultipart(r, boundary); the call of line
\* 748 is made for every multipart part the loop reads.
RECURSIVE parseMultipartDepth(_, _)
RECURSIVE PartLoopDepth(_)
PartLoopDepth(parts) ==
    IF parts = <<>> THEN 0
    ELSE LET p == Head(parts)
             mt == ParseMediaType(p.ContentType)
             rest == PartLoopDepth(Tail(parts))
         IN  IF IsMultipart(mt.mediaType)
             THEN Max({parseMultipartDepth(p, mt.boundary), rest})
             ELSE rest

parseMultipartDepth(r, boundary) ==
    IF r.drained \/ r.boundary # boundary \/ boundary = ""
    THEN 1
    ELSE 1 + PartLoopDepth(ReadableParts(r.parts))

\* Lines 712-727: the depth the recursion of parseMultipart reaches in a call
\* of extractEmailBody, 0 when parseMultipart is not called.
extractEmailBodyDepth(msg) ==
    LET mt == ParseMediaType(msg.ContentType)
    IN  IF ~mt.err /\ IsMultipart(mt.mediaType)
        THEN parseMultipartDepth(msg, mt.boundary)
        ELSE 0

\* Lines 712-727: the string returned.
extractEmailBody(msg) ==
    LET mt == ParseMediaType(msg.ContentType)
    IN  IF mt.err THEN ReadAll(msg)
        ELSE IF IsMultipart(mt.mediaType) THEN parseMultipart(msg, mt.boundary)
        ELSE decodeContent(ReadAll(msg), msg.CTE)

\* extractEmailBody when it leaves msg.Body where it was.
BodyReadKeepsPosition(msg) == msg

\* Lines 712-727: msg.Body after the call, read to its end.
BodyRead(msg) == [msg EXCEPT !.drained = TRUE]

(***************************************************************************)
(* The inputs the model draws an analyzeEmail call from                    *)
(***************************************************************************)
AuthHeaders ==
    {<<>>,
     <<"spf=fail;", "dkim=pass;", "dmarc=fail">>,
     <<"spf=pass;", "dkim=pass;", "dmarc=pass">>,
     <<"spf=pass">>,
     <<"SPF=SoftFail", "dkim=fail", "dmarc=none">>,
     <<"spf=softfail", "dkim=softfail", "dmarc=softfail">>,
     <<"spf=none">>}

FromHeaders ==
    {<<"Bob", "<", "bob", "@", "Bank.COM", ">">>,
     <<"bob">>,
     <<>>}

ReturnPathHeaders ==
    {<<>>,
     <<"<", "bounce", "@", "bank.com", ">">>,
     <<"<", "x", "@", "evil.com", ">">>}

ReplyToHeaders ==
    {<<>>,
     <<"<", "x", "@", "evil.com", ">">>}

SubjectHeaders ==
    {<<>>,
     <<"Urgent:", "verify", "your", "account">>,
     <<"Hello", "team">>,
     <<"=?UTF-8?Q?Urgent:?=", "password", "utf">>}

GermanBody ==
    <<"Ihr", "Konto", "wurde", "gesperrt", "bitte", "bestaetigen", "Sie", "Ihre",
      "Daten", "sofort">>

Bodies ==
    {<<>>,
     <<"your", "account", "is", "suspended">>,
     <<"SUSPENDED", "NOW", "hello", "world", "account">>,
     <<"Hello", "<b>", "world", "</b>", "please">>,
     <<"NOW", "hello", "team">>,
     GermanBody}

\* What the translation service can answer.
Translations ==
    {[ok |-> FALSE, text |-> <<>>],
     [ok |-> TRUE, text |-> <<"your", "account", "was", "suspended">>]}

NetAnswers ==
    [mx : {"found", "empty", "error"},
     spf : {""},
     dmarc : {""},
     doh : {"nxdomain"},
     sys : {"no_such_host"},
     translate : Translations]

\* Statistics files of the flat LinguisticStats shape.
TableA ==
    [TotalEmails |-> 20,
     TopBodyWords |-> <<WordFreq("please", 10, Rat(10 * 100, 20)),
                        WordFreq("suspended", 8, Rat(8 * 100, 20)),
                        WordFreq("account", 3, Rat(3 * 100, 20))>>,
     TopSubjectWords |-> <<WordFreq("account", 7, Rat(7 * 100, 20)),
                           WordFreq("utf", 6, Rat(6 * 100, 20)),
                           WordFreq("urgent", 5, Rat(5 * 100, 20)),
                           WordFreq("hello", 1, Rat(1 * 100, 20))>>]

TableB ==
    [TotalEmails |-> 300,
     TopBodyWords |-> <<WordFreq("now", 300, Rat(300 * 100, 300)),
                        WordFreq("hello", 180, Rat(180 * 100, 300)),
                        WordFreq("world", 100, Rat(100 * 100, 300)),
                        WordFreq("account", 25, Rat(25 * 100, 300)),
                        WordFreq("suspended", 21, Rat(21 * 100, 300))>>,
     TopSubjectWords |-> <<WordFreq("verify", 20, Rat(20 * 100, 300)),
                           WordFreq("team", 16, Rat(16 * 100, 300))>>]

StatsTables == {ZeroStats, TableA, TableB}

Messages ==
    [AuthenticationResults : AuthHeaders,
     From : FromHeaders,
     ReturnPath : ReturnPathHeaders,
     ReplyTo : ReplyToHeaders,
     Subject : SubjectHeaders]

(***************************************************************************)
(* SpecScore: analyzeEmail as a function of its inputs                     *)
(***************************************************************************)
ScoreIdle == req = None /\ res = None

\* The variables of the extractor specification while it is not running.
MimeIdle == mimeMsg = None /\ mimeOut = <<>>

\* The variables of the network-check specification while it is not running.
NetIdle == netIn = None /\ netPc = "off" /\ lookups = <<>> /\ netOut = None

\* The variables of the trainer specification while it is not running.
TrainerIdle ==
    /\ corpus = None /\ trainerPc = "off" /\ accum = None
    /\ artifact = None /\ rows = None

\* The variables of the server specification while it is not running.
ServerIdle ==
    /\ statsFile = None /\ globalStats = ZeroStats
    /\ memoryStore = <<>> /\ memoryMutex = None
    /\ pc = <<>> /\ local = <<>>

InitScore ==
    /\ req \in [stats : StatsTables, msg : Messages, body : Bodies, net : NetAnswers]
    /\ res = None
    /\ MimeIdle
    /\ NetIdle
    /\ ServerIdle
    /\ TrainerIdle

Analyze ==
    /\ res = None
    /\ res' = <<analyzeEmail(req.stats, req.msg, req.body, req.net)>>
    /\ UNCHANGED <<req, mimeVars, netVars, serverVars, trainerVars>>

NextScore == Analyze

SpecScore == InitScore /\ [][NextScore]_vars

(***************************************************************************)
(* SpecReputation: analyzeEmail on senders of a trusted and of another     *)
(* domain, with every answer the reputation lookups can get                *)
(***************************************************************************)
ReputationMessages ==
    [AuthenticationResults : {<<>>, <<"spf=pass;", "dkim=pass;", "dmarc=pass">>},
     From : {<<"Bob", "<", "bob", "@", "Bank.COM", ">">>,
             <<"Bob", "<", "bob", "@", "paypal.com", ">">>,
             <<>>},
     ReturnPath : {<<>>, <<"<", "bounce", "@", "bank.com", ">">>},
     ReplyTo : {<<>>},
     Subject : {<<"Hello", "team">>, <<"Urgent:", "verify", "your", "account">>}]

ReputationNets ==
    [mx : {"found", "empty"},
     spf : {"", "v=spf1 -all"},
     dmarc : {"", "v=DMARC1; p=reject"},
     doh : DohAnswers,
     sys : SysAnswers,
     translate : {[ok |-> FALSE, text |-> <<>>]}]

InitReputation ==
    /\ req \in [stats : {TableA}, msg : ReputationMessages,
                 body : {<<"your", "account", "is", "suspended">>}, net : ReputationNets]
    /\ res = None
    /\ MimeIdle
    /\ NetIdle
    /\ ServerIdle
    /\ TrainerIdle

SpecReputation == InitReputation /\ [][NextScore]_vars

(***************************************************************************)
(* SpecNet: the active network checks of one analyzeEmail call (lines      *)
(* 427-471) with checkBlacklist (lines 904-966), one step per lookup.      *)
(* A lookup that times out answers with its error.                         *)
(***************************************************************************)
\* No call sends more lookups than this.
MaxLookups == 6

NetDomains == {"", "bank.com", "mail.paypal.com"}

\* What the resolvers can answer to the lookups of one call: net.LookupMX,
\* the first v=spf1 and the last v=DMARC1 record of net.LookupTXT ("" when
\* there is none or the lookup fails), the DoH endpoint and net.LookupHost.
LookupAnswers ==
    [mx : {"found", "empty", "error"},
     spf : {"", "v=spf1 -all"},
     dmarc : {"", "v=DMARC1; p=reject"},
     doh : DohAnswers,
     sys : SysAnswers]

\* The fields of riskFactors and breakdown before the checks.
NoNetOut ==
    [HasMXRecords |-> FALSE, NoMXPenalty |-> 0, LiveSPFRecord |-> "",
     LiveDMARCRecord |-> "", DomainTrustScore |-> "", BlacklistStatus |-> ""]

InitNet ==
    /\ netIn \in {<<[domain |-> d, net |-> n]>> : d \in NetDomains, n \in LookupAnswers}
    /\ netPc = "start"
    /\ lookups = <<>>
    /\ netOut = <<NoNetOut>>
    /\ ScoreIdle /\ MimeIdle /\ ServerIdle /\ TrainerIdle

\* One more lookup on the wire.
Issue(kind, name) == Append(lookups, [kind |-> kind, name |-> name])

\* A step of the checks: the lookup it sends (or none), the fields it sets
\* and the place it goes to.
NetStep(from, sent, out, to) ==
    /\ netPc = from
    /\ sent # None => Len(lookups) < MaxLookups
    /\ lookups' = IF sent = None THEN lookups ELSE Issue(sent[1], sent[2])
    /\ netOut' = <<out>>
    /\ netPc' = to
    /\ UNCHANGED <<netIn, scoreVars, mimeVars, serverVars, trainerVars>>

\* Lines 427 and 467-471.
CheckDomain ==
    IF netIn[1].domain # ""
    THEN NetStep("start", None, netOut[1], "mx")
    ELSE NetStep("start", None,
                 [netOut[1] EXCEPT !.DomainTrustScore = "Unknown",
                                   !.BlacklistStatus = "Unknown"],
                 "done")

\* MXFound with an empty answer taken for records.
MXFoundUnlessError(mx) == mx # "error"

\* Line 430: err == nil && len(mxRecords) > 0.
MXFound(mx) == mx = "found"

\* Lines 429-436.
LookupMX ==
    NetStep("mx", <<"MX", netIn[1].domain>>,
            IF MXFound(netIn[1].net.mx)
            THEN [netOut[1] EXCEPT !.HasMXRecords = TRUE]
            ELSE [netOut[1] EXCEPT !.NoMXPenalty = @ + 50],
            "txt")

\* Lines 439-447.
LookupSPF ==
    NetStep("txt", <<"TXT", netIn[1].domain>>,
            [netOut[1] EXCEPT !.LiveSPFRecord = netIn[1].net.spf], "dmarc")

\* Lines 449-457.
LookupDMARC ==
    NetStep("dmarc", <<"TXT", "_dmarc." \o netIn[1].domain>>,
            [netOut[1] EXCEPT !.LiveDMARCRecord = netIn[1].net.dmarc], "trust")

\* Lines 460-461.
DomainTrust ==
    NetStep("trust", None,
            [netOut[1] EXCEPT !.DomainTrustScore = checkDomainTrust(netIn[1].domain)],
            "doh")

\* Lines 907-940: what the DoH answer makes checkBlacklist return ("Clean",
\* "Listed") or leave in status ("Fallback", "Unknown").
DohOutcome(doh) ==
    CASE doh = "nxdomain" -> "Clean"
      [] doh = "address" -> "Listed"
      [] doh \in {"transport_error", "http_error", "sentinel"} -> "Fallback"
      [] OTHER -> "Unknown"

\* Lines 944-965: what checkBlacklist returns after net.LookupHost.
SysOutcome(sys) ==
    CASE sys = "no_such_host" -> "Clean"
      [] sys = "other_error" -> "Error"
      [] sys = "sentinel" -> "Error (Blocked)"
      [] sys = "address" -> "Listed"
      [] OTHER -> "Clean"

\* The DoH query sent again after a failure.
DohFailureRetry == "doh"

\* Line 944: with status "Fallback" the system resolver is asked.
DohFailureNext == "sys"

\* Lines 906-940 and 965.
DohQuery ==
    LET outcome == DohOutcome(netIn[1].net.doh)
        name == netIn[1].domain \o ".dbl.spamhaus.org"
    IN  IF outcome = "Fallback"
        THEN NetStep("doh", <<"DoH", name>>, netOut[1], DohFailureNext)
        ELSE NetStep("doh", <<"DoH", name>>,
                     [netOut[1] EXCEPT !.BlacklistStatus =
                         IF outcome = "Unknown" THEN "Clean" ELSE outcome],
                     "done")

\* Lines 944-965.
SysLookup ==
    NetStep("sys", <<"Host", netIn[1].domain \o ".dbl.spamhaus.org">>,
            [netOut[1] EXCEPT !.BlacklistStatus = SysOutcome(netIn[1].net.sys)],
            "done")

NextNet ==
    \/ CheckDomain
    \/ LookupMX
    \/ LookupSPF
    \/ LookupDMARC
    \/ DomainTrust
    \/ DohQuery
    \/ SysLookup

SpecNet == InitNet /\ [][NextNet]_vars

\* Every lookup returns (with an answer, an error or a timeout) and the
\* goroutine of the request is scheduled again.
SpecNetLive == SpecNet /\ WF_vars(NextNet)

(***************************************************************************)
(* SpecMime: extractEmailBody run on parsed messages.  mail.ReadMessage    *)
(* yields a message whose Body reader stands at the start of the body;     *)
(* extractEmailBody reads from that reader.                                *)
(***************************************************************************)
MaxRuns == 4

PlainPart == TextEntity("text/plain", "", <<"plain", "text">>)
HtmlPart == TextEntity("text/html", "", <<"<html>", "Hello", "Bob">>)
QPPart == TextEntity("text/plain", "quoted-printable", <<"sus=\npended", "=3D41">>)
BadPart == [TextEntity("text/plain", "", <<"lost">>) EXCEPT !.malformed = TRUE]
InnerAlternative ==
    Entity("multipart/alternative; boundary=b1", "", <<>>, "b1", <<PlainPart, HtmlPart>>)

\* The nesting of the most deeply nested multipart message of the model.
MaxNesting == 4

UntypedPart == TextEntity("", "", <<"untyped">>)
BadParamPart == TextEntity("text/plain; charset", "", <<"param">>)

\* A multipart entity at level k of a message nested n levels deep: the
\* innermost level holds an HTML part, the levels above hold a plain-text
\* part and the next level.
RECURSIVE Nested(_, _)
Nested(k, n) ==
    Entity(LevelContentType[k], "", <<>>, LevelBoundary[k],
           IF k = n THEN <<HtmlPart>> ELSE <<PlainPart, Nested(k + 1, n)>>)

MimeMessages ==
    {Nested(1, n) : n \in 1..MaxNesting} \cup
    { Entity("multipart/mixed; boundary=b2", "", <<>>, "b2", <<HtmlPart, PlainPart>>),
      Entity("multipart/mixed; boundary=b2", "", <<>>, "b2", <<UntypedPart, PlainPart>>),
      Entity("multipart/mixed; boundary=b2", "", <<>>, "b2", <<PlainPart, BadPart, HtmlPart>>),
      Entity("multipart/mixed; boundary=b2", "", <<>>, "b2", <<BadParamPart>>), TextEntity("text/plain", "", <<"Hello", "Bob">>),
      TextEntity("text/plain", "", <<>>),
      TextEntity("text/plain; charset=utf-8", "quoted-printable", <<"a=3Db", "=3D41">>),
      TextEntity("TEXT/PLAIN", "Quoted-Printable", <<"=41">>),
      TextEntity("", "quoted-printable", <<"=41">>),
      TextEntity("text/plain; charset", "", <<"Hello">>),
      TextEntity("text/html", "", <<"<div>", "Hello">>),
      InnerAlternative,
      Entity("multipart/mixed; boundary=b2", "", <<>>, "b2",
             <<PlainPart, TextEntity("text/plain", "", <<"second">>)>>),
      Entity("multipart/mixed; boundary=b2", "", <<>>, "b2", <<QPPart>>),
      Entity("multipart/mixed; boundary=b2", "", <<>>, "b2", <<BadPart, PlainPart>>),
      Entity("multipart/mixed; boundary=b2", "", <<>>, "b2",
             <<TextEntity("image/png", "base64", <<"iVBOR">>), InnerAlternative>>),
      Entity("multipart/mixed; boundary=b2", "", <<>>, "b2",
             <<Entity("multipart/alternative; boundary=b1", "", <<>>, "b1", <<PlainPart>>),
               TextEntity("text/plain", "", <<"outer">>)>>),
      Entity("multipart/mixed", "", <<>>, "b2", <<PlainPart>>),
      Entity("multipart/mixed; boundary=b2", "", <<>>, "b1", <<PlainPart>>) }


InitMime ==
    /\ mimeMsg \in {<<m>> : m \in MimeMessages}
    /\ mimeOut = <<>>
    /\ ScoreIdle
    /\ NetIdle
    /\ ServerIdle
    /\ TrainerIdle

\* Lines 712-727, run on the message mimeMsg holds: the string returned
\* is recorded with the depth the recursion of parseMultipart reached, and
\* the call leaves msg.Body read.
ExtractBody ==
    /\ Len(mimeOut) < MaxRuns
    /\ mimeOut' = Append(mimeOut, [op |-> "extract",
                                   out |-> extractEmailBody(mimeMsg[1]),
                                   depth |-> extractEmailBodyDepth(mimeMsg[1])])
    /\ mimeMsg' = <<BodyRead(mimeMsg[1])>>
    /\ UNCHANGED <<scoreVars, netVars, serverVars, trainerVars>>

\* Lines 251-255: mail.ReadMessage over the same bytes gives a new message
\* whose Body reader stands at the start of the body.
ReadMessage ==
    /\ Len(mimeOut) < MaxRuns
    /\ mimeOut # <<>> /\ mimeOut[Len(mimeOut)].op = "extract"
    /\ mimeOut' = Append(mimeOut, [op |-> "parse", out |-> <<>>, depth |-> 0])
    /\ mimeMsg' = <<[mimeMsg[1] EXCEPT !.drained = FALSE]>>
    /\ UNCHANGED <<scoreVars, netVars, serverVars, trainerVars>>

NextMime == ExtractBody \/ ReadMessage

SpecMime == InitMime /\ [][NextMime]_vars

(***************************************************************************)
(* cmd/trainer and cmd/server: the statistics file                         *)
(*                                                                         *)
(* A JSON object is a function from its keys to its values.                *)
(***************************************************************************)
\* cmd/trainer, json.Marshal of a LinguisticStats by its struct tags.
EncodeStats(st) ==
    [total_emails |-> st.TotalEmails,
     top_body_words |->
        [i \in 1..Len(st.TopBodyWords) |->
            [word |-> st.TopBodyWords[i].Word, count |-> st.TopBodyWords[i].Count,
             percent |-> st.TopBodyWords[i].Percent]],
     top_subject_words |->
        [i \in 1..Len(st.TopSubjectWords) |->
            [word |-> st.TopSubjectWords[i].Word, count |-> st.TopSubjectWords[i].Count,
             percent |-> st.TopSubjectWords[i].Percent]]]

\* cmd/trainer, json.Marshal of a LinguisticReport by its struct tags.
EncodeReport(report) ==
    [safe_stats |-> EncodeStats(report.SafeStats),
     scam_stats |-> EncodeStats(report.ScamStats)]

\* cmd/server, json.Decoder.Decode of a list of word entries.
DecodeWordFreqs(list) ==
    [i \in 1..Len(list) |->
        WordFreq(IF "word" \in DOMAIN list[i] THEN list[i].word ELSE "",
                 IF "count" \in DOMAIN list[i] THEN list[i].count ELSE 0,
                 IF "percent" \in DOMAIN list[i] THEN list[i].percent ELSE RInt(0))]

\* cmd/server, json.Decoder.Decode of a JSON object into a LinguisticStats
\* value: a field is set from the key its tag names when the object has that
\* key, a field without its key keeps its value, other keys are ignored.
DecodeStats(doc, into) ==
    [TotalEmails |-> IF "total_emails" \in DOMAIN doc
                     THEN doc.total_emails ELSE into.TotalEmails,
     TopBodyWords |-> IF "top_body_words" \in DOMAIN doc
                      THEN DecodeWordFreqs(doc.top_body_words) ELSE into.TopBodyWords,
     TopSubjectWords |-> IF "top_subject_words" \in DOMAIN doc
                         THEN DecodeWordFreqs(doc.top_subject_words)
                         ELSE into.TopSubjectWords]

\* json.Decoder.Decode on a value whose JSON type does not fit the field
\* (file.mistyped holds the keys of such values): the field is skipped, the
\* other fields are set, and the call returns an UnmarshalTypeError.
DecodableKeys(file) == DOMAIN file.doc \ file.mistyped

\* Lines 139-143: Decode returns an error (which the code logs).
DecodeFails(file) == ~file.valid \/ file.mistyped # {}

\* Lines 130-144 of cmd/server: globalStats after the call.  A file that is
\* not JSON leaves the value as it was.
loadLinguisticStats(file, stats) ==
    IF ~file.exists \/ ~file.valid THEN stats
    ELSE DecodeStats([k \in DecodableKeys(file) |-> file.doc[k]], stats)

\* A report as the trainer writes it: the scam class holds the words the
\* safe class does not.
SampleReport ==
    [SafeStats |->
        [TotalEmails |-> 10,
         TopBodyWords |-> <<WordFreq("hello", 6, Rat(6 * 100, 10))>>,
         TopSubjectWords |-> <<WordFreq("team", 4, Rat(4 * 100, 10))>>],
     ScamStats |->
        [TotalEmails |-> 10,
         TopBodyWords |-> <<WordFreq("suspended", 8, Rat(8 * 100, 10)),
                            WordFreq("account", 5, Rat(5 * 100, 10)),
                            WordFreq("please", 3, Rat(3 * 100, 10))>>,
         TopSubjectWords |-> <<WordFreq("urgent", 6, Rat(6 * 100, 10)),
                               WordFreq("verify", 4, Rat(4 * 100, 10))>>]]

\* The file is missing; is not JSON; is a report as the trainer writes it; is
\* a flat table; is a flat table whose total_emails is a string.
StatsFiles ==
    {[exists |-> FALSE, valid |-> FALSE, doc |-> <<>>, mistyped |-> {}],
     [exists |-> TRUE, valid |-> FALSE, doc |-> <<>>, mistyped |-> {}],
     [exists |-> TRUE, valid |-> TRUE, doc |-> EncodeReport(SampleReport), mistyped |-> {}],
     [exists |-> TRUE, valid |-> TRUE, doc |-> EncodeStats(TableA), mistyped |-> {}],
     [exists |-> TRUE, valid |-> TRUE, doc |-> EncodeStats(TableA),
      mistyped |-> {"total_emails"}]}

(***************************************************************************)
(* Spec: the server.  main loads the statistics, starts the cleanup        *)
(* goroutine and serves; every request runs its handler in a goroutine of  *)
(* its own.                                                                *)
(***************************************************************************)
Handlers == {"h1", "h2"}

FileNames == {"a.eml"}

\* An uploaded or stored file: whether it starts with an mbox "From " line,
\* whether mail.ReadMessage accepts what follows, and the message.
RawEmail(mbox, wellFormed, header, entity) ==
    [mbox |-> mbox, wellFormed |-> wellFormed, header |-> header, entity |-> entity]

NeutralHeader ==
    [AuthenticationResults |-> <<"spf=pass;", "dkim=pass;", "dmarc=pass">>,
     From |-> <<"Bob", "<", "bob", "@", "Bank.COM", ">">>,
     ReturnPath |-> <<"<", "bounce", "@", "bank.com", ">">>,
     ReplyTo |-> <<>>,
     Subject |-> <<"Hello", "team">>]

ScenarioHeader ==
    [NeutralHeader EXCEPT
        !.AuthenticationResults = <<"spf=fail;", "dkim=pass;", "dmarc=fail">>,
        !.Subject = <<"Urgent:", "verify", "your", "account">>]

ScenarioEml ==
    RawEmail(FALSE, TRUE, ScenarioHeader,
             TextEntity("text/plain", "", <<"your", "account", "is", "suspended">>))

GermanEml ==
    RawEmail(TRUE, TRUE, NeutralHeader,
             TextEntity("text/plain; charset=utf-8", "", GermanBody))

BrokenEml == RawEmail(FALSE, FALSE, NeutralHeader, TextEntity("", "", <<>>))

Uploads == {ScenarioEml, GermanEml, BrokenEml}

\* data/test_emails.
TestFiles == [n \in {"scenario.eml"} |-> ScenarioEml]

ServerNets == {n \in NetAnswers : n.mx \in {"found", "error"}}

\* Lines 243-249 and 277-281: the mbox line is dropped.
StripMbox(content) == [content EXCEPT !.mbox = FALSE]

NoLocal ==
    [key |-> "", filename |-> "", content |-> None, isTestFile |-> FALSE, net |-> None,
     result |-> None, ownEmails |-> {}, status |-> 0]

\* sync.RWMutex: no writer and no readers.
Unlocked == [writer |-> None, readers |-> {}]

\* The mode each access of memoryStore takes memoryMutex in.
CleanupUnderReadLock == "read"
CleanupLockMode == "write"
IndexLockMode == "read"
LookupLockMode == "read"
UploadUnderReadLock == "read"
UploadLockMode == "write"
ListLockMode == "read"

\* sync.RWMutex: Lock or RLock returns.
CanAcquire(m, mode) ==
    IF mode = "write" THEN m.writer = None /\ m.readers = {} ELSE m.writer = None

Acquire(m, p, mode) ==
    IF mode = "write" THEN [m EXCEPT !.writer = <<p>>]
    ELSE [m EXCEPT !.readers = @ \cup {p}]

\* sync.RWMutex: Unlock or RUnlock.
Release(m, p, mode) ==
    IF mode = "write" THEN [m EXCEPT !.writer = None]
    ELSE [m EXCEPT !.readers = @ \ {p}]

\* The keys of memoryStore, as the loops of lines 200-202 and 337-339
\* collect them.
Keys(store) == DOMAIN store

\* Handlers and the cleanup goroutine running while main still loads.
ServingBeforeLoad == TRUE

\* http.ListenAndServe runs handlers once main has reached it.
Serving == pc["main"] = "serving"

Init ==
    /\ statsFile \in {<<f>> : f \in StatsFiles}
    /\ globalStats = ZeroStats
    /\ memoryStore = <<>>
    /\ memoryMutex = Unlocked
    /\ pc = [p \in {"main", "cleanup"} \cup Handlers |->
                IF p = "main" THEN "load" ELSE IF p = "cleanup" THEN "sleep" ELSE "idle"]
    /\ local = [h \in Handlers |-> NoLocal]
    /\ ScoreIdle /\ MimeIdle /\ NetIdle /\ TrainerIdle

\* Line 176: main loads the statistics, then starts the cleanup goroutine
\* and listens.
LoadStats ==
    /\ pc["main"] = "load"
    /\ globalStats' = loadLinguisticStats(statsFile[1], globalStats)
    /\ pc' = [pc EXCEPT !["main"] = "serving"]
    /\ UNCHANGED <<statsFile, memoryStore, memoryMutex, local, scoreVars, mimeVars, netVars, trainerVars>>

\* A goroutine moves to another place and nothing else changes.
Goto(p, to) ==
    /\ pc' = [pc EXCEPT ![p] = to]
    /\ UNCHANGED <<statsFile, globalStats, memoryStore, memoryMutex, local,
                   scoreVars, mimeVars, netVars, trainerVars>>

\* A goroutine takes memoryMutex in a mode, or gives it back.
LockStep(p, from, mode, to) ==
    /\ Serving /\ pc[p] = from
    /\ CanAcquire(memoryMutex, mode)
    /\ memoryMutex' = Acquire(memoryMutex, p, mode)
    /\ pc' = [pc EXCEPT ![p] = to]
    /\ UNCHANGED <<statsFile, globalStats, memoryStore, local, scoreVars, mimeVars, netVars, trainerVars>>

\* A handler answers the request with a status and is done.
Respond(h, status) ==
    /\ local' = [local EXCEPT ![h] = [NoLocal EXCEPT !.status = status]]
    /\ pc' = [pc EXCEPT ![h] = "idle"]

\* Lines 179-186, the cleanup goroutine.
CleanupWake == Serving /\ pc["cleanup"] = "sleep" /\ Goto("cleanup", "cl_lock")

CleanupLock == LockStep("cleanup", "cl_lock", CleanupLockMode, "cl_clear")

CleanupClear ==
    /\ pc["cleanup"] = "cl_clear"
    /\ memoryStore' = <<>>
    /\ pc' = [pc EXCEPT !["cleanup"] = "cl_unlock"]
    /\ UNCHANGED <<statsFile, globalStats, memoryMutex, local, scoreVars, mimeVars, netVars, trainerVars>>

CleanupUnlock ==
    /\ pc["cleanup"] = "cl_unlock"
    /\ memoryMutex' = Release(memoryMutex, "cleanup", CleanupLockMode)
    /\ pc' = [pc EXCEPT !["cleanup"] = "sleep"]
    /\ UNCHANGED <<statsFile, globalStats, memoryStore, local, scoreVars, mimeVars, netVars, trainerVars>>

\* Lines 192-197, a request for "/": the template parses or the answer is 500.
IndexBegin(h) ==
    /\ Serving /\ pc[h] = "idle"
    /\ \/ /\ local' = [local EXCEPT ![h] = NoLocal]
          /\ pc' = [pc EXCEPT ![h] = "idx_rlock"]
       \/ Respond(h, 500)
    /\ UNCHANGED <<statsFile, globalStats, memoryStore, memoryMutex, scoreVars, mimeVars, netVars, trainerVars>>

\* Line 198.
IndexRLock(h) == LockStep(h, "idx_rlock", IndexLockMode, "idx_list")

\* Lines 199-202.
IndexList(h) ==
    /\ pc[h] = "idx_list"
    /\ local' = [local EXCEPT ![h].ownEmails = Keys(memoryStore)]
    /\ pc' = [pc EXCEPT ![h] = "idx_runlock"]
    /\ UNCHANGED <<statsFile, globalStats, memoryStore, memoryMutex, scoreVars, mimeVars, netVars, trainerVars>>

\* Lines 203-211.
IndexRUnlock(h) ==
    /\ pc[h] = "idx_runlock"
    /\ memoryMutex' = Release(memoryMutex, h, IndexLockMode)
    /\ Respond(h, 200)
    /\ UNCHANGED <<statsFile, globalStats, memoryStore, scoreVars, mimeVars, netVars, trainerVars>>

\* Lines 228-230, a request for "/analyze?testFile=memory:<key>".
MemoryBegin(h) ==
    /\ Serving /\ pc[h] = "idle"
    /\ \E key \in FileNames : local' = [local EXCEPT ![h] = [NoLocal EXCEPT !.key = key]]
    /\ pc' = [pc EXCEPT ![h] = "mem_rlock"]
    /\ UNCHANGED <<statsFile, globalStats, memoryStore, memoryMutex, scoreVars, mimeVars, netVars, trainerVars>>

\* Line 231.
MemoryRLock(h) == LockStep(h, "mem_rlock", LookupLockMode, "mem_lookup")

\* Line 232.
MemoryLookup(h) ==
    /\ pc[h] = "mem_lookup"
    /\ local' = [local EXCEPT ![h].content =
                    IF local[h].key \in DOMAIN memoryStore
                    THEN <<memoryStore[local[h].key]>> ELSE None]
    /\ pc' = [pc EXCEPT ![h] = "mem_runlock"]
    /\ UNCHANGED <<statsFile, globalStats, memoryStore, memoryMutex, scoreVars, mimeVars, netVars, trainerVars>>

\* Lines 233-249.
MemoryRUnlock(h) ==
    /\ pc[h] = "mem_runlock"
    /\ memoryMutex' = Release(memoryMutex, h, LookupLockMode)
    /\ IF local[h].content = None
       THEN Respond(h, 404)
       ELSE /\ local' = [local EXCEPT ![h].filename = local[h].key,
                                      ![h].content = <<StripMbox(local[h].content[1])>>]
            /\ pc' = [pc EXCEPT ![h] = "parse"]
    /\ UNCHANGED <<statsFile, globalStats, memoryStore, scoreVars, mimeVars, netVars, trainerVars>>

\* Lines 261-281, a request for "/analyze?testFile=<name>".
TestFileBegin(h) ==
    /\ Serving /\ pc[h] = "idle"
    /\ \E name \in DOMAIN TestFiles \cup {"missing.eml"} :
          IF name \notin DOMAIN TestFiles
          THEN Respond(h, 404)
          ELSE /\ local' = [local EXCEPT ![h] =
                               [NoLocal EXCEPT !.filename = name, !.isTestFile = TRUE,
                                               !.content = <<StripMbox(TestFiles[name])>>]]
               /\ pc' = [pc EXCEPT ![h] = "parse"]
    /\ UNCHANGED <<statsFile, globalStats, memoryStore, memoryMutex, scoreVars, mimeVars, netVars, trainerVars>>

\* mail.ReadMessage accepts the content.
ReadMessageOK(content) == content.wellFormed /\ ~content.mbox

\* Lines 251-259 or 283-291, then 328-334: the message is parsed, its body
\* extracted and analyzeEmail run on the answers net of the network; the
\* template parses or the answer is 500.
ParseAndAnalyze(h) ==
    /\ pc[h] = "parse"
    /\ LET content == local[h].content[1]
       IN  IF ~ReadMessageOK(content)
           THEN Respond(h, 500)
           ELSE \E net \in ServerNets :
                   \/ /\ local' = [local EXCEPT
                            ![h].net = <<net>>,
                            ![h].result =
                                <<analyzeEmail(globalStats, content.header,
                                               extractEmailBody(content.entity), net)>>]
                      /\ pc' = [pc EXCEPT ![h] = "an_rlock"]
                   \/ Respond(h, 500)
    /\ UNCHANGED <<statsFile, globalStats, memoryStore, memoryMutex, scoreVars, mimeVars, netVars, trainerVars>>

\* Line 335.
AnalyzeRLock(h) == LockStep(h, "an_rlock", ListLockMode, "an_list")

\* Lines 336-339.
AnalyzeList(h) ==
    /\ pc[h] = "an_list"
    /\ local' = [local EXCEPT ![h].ownEmails = Keys(memoryStore)]
    /\ pc' = [pc EXCEPT ![h] = "an_runlock"]
    /\ UNCHANGED <<statsFile, globalStats, memoryStore, memoryMutex, scoreVars, mimeVars, netVars, trainerVars>>

\* Lines 340-350.
AnalyzeRUnlock(h) ==
    /\ pc[h] = "an_runlock"
    /\ memoryMutex' = Release(memoryMutex, h, ListLockMode)
    /\ Respond(h, 200)
    /\ UNCHANGED <<statsFile, globalStats, memoryStore, scoreVars, mimeVars, netVars, trainerVars>>

\* Lines 293-314, a request for "/analyze" without testFile: a request that
\* is not a POST is redirected, one without a readable file is refused.
UploadBegin(h) ==
    /\ Serving /\ pc[h] = "idle"
    /\ \/ \E status \in {303, 400, 500} : Respond(h, status)
       \/ /\ \E name \in FileNames, content \in Uploads :
                local' = [local EXCEPT ![h] =
                             [NoLocal EXCEPT !.filename = name, !.content = <<content>>]]
          /\ pc' = [pc EXCEPT ![h] = "up_lock"]
    /\ UNCHANGED <<statsFile, globalStats, memoryStore, memoryMutex, scoreVars, mimeVars, netVars, trainerVars>>

\* Line 317.
UploadLock(h) == LockStep(h, "up_lock", UploadLockMode, "up_store")

\* Line 318.
UploadStore(h) ==
    /\ pc[h] = "up_store"
    /\ memoryStore' = [k \in DOMAIN memoryStore \cup {local[h].filename} |->
                          IF k = local[h].filename THEN local[h].content[1]
                          ELSE memoryStore[k]]
    /\ pc' = [pc EXCEPT ![h] = "up_unlock"]
    /\ UNCHANGED <<statsFile, globalStats, memoryMutex, local, scoreVars, mimeVars, netVars, trainerVars>>

\* Lines 319-325.
UploadUnlock(h) ==
    /\ pc[h] = "up_unlock"
    /\ memoryMutex' = Release(memoryMutex, h, UploadLockMode)
    /\ Respond(h, 303)
    /\ UNCHANGED <<statsFile, globalStats, memoryStore, scoreVars, mimeVars, netVars, trainerVars>>

Next ==
    \/ LoadStats
    \/ CleanupWake \/ CleanupLock \/ CleanupClear \/ CleanupUnlock
    \/ \E h \in Handlers :
          \/ IndexBegin(h) \/ IndexRLock(h) \/ IndexList(h) \/ IndexRUnlock(h)
          \/ MemoryBegin(h) \/ MemoryRLock(h) \/ MemoryLookup(h) \/ MemoryRUnlock(h)
          \/ TestFileBegin(h) \/ ParseAndAnalyze(h)
          \/ AnalyzeRLock(h) \/ AnalyzeList(h) \/ AnalyzeRUnlock(h)
          \/ UploadBegin(h) \/ UploadLock(h) \/ UploadStore(h) \/ UploadUnlock(h)

Spec == Init /\ [][Next]_vars

(***************************************************************************)
(* cmd/trainer: the statistics builder                                     *)
(*                                                                         *)
(* A text is a sequence of lexemes, as for the server.  The averages of    *)
(* word count, sentence length and shouting score are left out: no list of *)
(* the report depends on them.                                             *)
(***************************************************************************)
\* Lines 91-117.
stopWords ==
    {"the", "be", "to", "of", "and", "a", "in", "that", "have", "i", "it", "for",
     "not", "on", "with", "he", "as", "you", "do", "at", "this", "but", "his", "by",
     "from", "they", "we", "say", "her", "she", "or", "an", "will", "my", "one",
     "all", "would", "there", "their", "what", "so", "up", "out", "if", "about",
     "who", "get", "which", "go", "me", "when", "make", "can", "like", "time",
     "no", "just", "him", "know", "take", "people", "into", "year", "your", "good",
     "some", "could", "them", "see", "other", "than", "then", "now", "look", "only",
     "come", "its", "over", "think", "also", "back", "after", "use", "two", "how",
     "our", "work", "first", "well", "way", "even", "new", "want", "because", "any",
     "these", "give", "day", "most", "us", "is", "are", "was", "were", "been", "has",
     "re", "fw", "cc", "pm", "am", "subject", "forwarded", "original", "message",
     "sent", "date", "mail", "mailto", "image", "attached", "file"}

\* Lines 119-138.
phishingIrrelevant ==
    {"dear", "please", "thank", "thanks", "regards", "sincerely", "hello", "hi",
     "sir", "madam", "jose", "monkey", "john", "james", "david", "michael",
     "robert", "william", "mary", "patricia", "com", "org", "net", "gov", "edu",
     "mil", "www", "http", "https", "html", "php", "here", "below", "above",
     "following", "attached", "received", "sent", "reply", "forward", "today",
     "tomorrow", "yesterday", "soon", "may", "might", "must", "should", "would",
     "contact", "questions", "help", "support", "best", "team", "company", "one",
     "two", "three", "four", "five"}

\* Lines 570-577.
isNumeric(w) == w \in {"", "2024"}

\* strings.TrimSpace of a field.
TrimSpace(t) ==
    CASE t = " body " -> "body"
      [] t = " Spam " -> "Spam"
      [] OTHER -> t

\* htmlTagRegex.ReplaceAllString(text, " ").
StripTags(text) == SelectSeq(text, LAMBDA t : t \notin Tags)

\* wordRegex.FindAllString over a lower-cased text.
RECURSIVE FindAllWords(_)
FindAllWords(lower) ==
    IF lower = <<>> THEN <<>>
    ELSE LetterRuns(Head(lower)) \o FindAllWords(Tail(lower))

\* Lines 764-776, 784-793 and 306-314: the words a document counts for.
KeepBodyWord(w, dictionary) ==
    /\ ~(Len(w) < 3 \/ isNumeric(w))
    /\ ~(dictionary # {} /\ w \notin dictionary)
    /\ w \notin stopWords
    /\ w \notin phishingIrrelevant

KeepSubjectWord(w) ==
    /\ ~(Len(w) < 2 \/ isNumeric(w))
    /\ w \notin stopWords
    /\ w \notin phishingIrrelevant

KeepJSONWord(w, dictionary) ==
    /\ ~(Len(w) < 3 \/ isNumeric(w))
    /\ ~(dictionary # {} /\ w \notin dictionary)
    /\ w \notin stopWords

\* The counting of every occurrence of a word instead of every document.
CountOccurrences(counts, words) ==
    LET unique == {words[i] : i \in 1..Len(words)}
    IN  [w \in DOMAIN counts \cup unique |->
            (IF w \in DOMAIN counts THEN counts[w] ELSE 0)
            + Cardinality({i \in 1..Len(words) : words[i] = w})]

\* Lines 817-822, 844-849 and 321-327: every distinct word of the document
\* adds one to its count.
CountDoc(counts, words) ==
    LET unique == {words[i] : i \in 1..Len(words)}
    IN  [w \in DOMAIN counts \cup unique |->
            (IF w \in DOMAIN counts THEN counts[w] ELSE 0)
            + (IF w \in unique THEN 1 ELSE 0)]

\* Lines 688-699: the index of the last column whose name is one of names,
\* or -1.
Sniff(header, names) ==
    LET hits == {i \in 1..Len(header) : ToLowerLexeme(TrimSpace(header[i])) \in names}
    IN  IF hits = {} THEN -1 ELSE Max(hits) - 1

\* Lines 702-704.
labelIdx(header) ==
    LET i == Sniff(header, {"label", "class"})
    IN  IF i = -1 THEN Len(header) - 1 ELSE i

\* Lines 705-707.
bodyIdx(header) ==
    LET i == Sniff(header, {"body", "text"})
    IN  IF i = -1 /\ Len(header) > 4 THEN 4 ELSE i

\* Lines 708-710.
subjectIdx(header) ==
    LET i == Sniff(header, {"subject"})
    IN  IF i = -1 /\ Len(header) > 3 THEN 3 ELSE i

\* A field as one string.
FieldString(field) ==
    IF field = <<>> THEN "" ELSE IF Len(field) = 1 THEN field[1] ELSE "several words"

\* cmd/trainer with only the label 1 standing for scam.
isScamOnlyDigit(labelStr) == labelStr = "1"

\* Line 749.
isScam(labelStr) ==
    \/ labelStr = "1"
    \/ ToLowerLexeme(labelStr) = "phish"
    \/ ToLowerLexeme(labelStr) = "spam"

\* Lines 863 and 369, lines 871 and 377.
MinDocFrequency == 2
TopN == 100

\* The words of the corpora of the model: a document of BulkSize distinct
\* words, and the words of the short documents.
BulkSize == 101

BulkLetters == <<"a", "b", "c", "d", "e", "f", "g", "h", "i", "j", "k">>

BulkBody ==
    [i \in 1..BulkSize |->
        "q" \o BulkLetters[(i \div 11) + 1] \o BulkLetters[(i % 11) + 1]]

Vocabulary ==
    BulkBody \o <<"verify", "account", "suspended", "meeting", "urgent", "please">>

\* The orders in which a range loop hands out the keys of a map.
MapOrders == {"forward", "backward"}

Reverse(s) == [i \in 1..Len(s) |-> s[Len(s) + 1 - i]]

\* for w, c := range counts.
RangeOver(counts, order) ==
    SelectSeq(IF order = "forward" THEN Vocabulary ELSE Reverse(Vocabulary),
              LAMBDA w : w \in DOMAIN counts)

\* sort.Slice(wordList, Percent descending): the entries of the highest
\* percent first, in the order they had, then the rest sorted.
RECURSIVE SortByPercent(_)
SortByPercent(wordList) ==
    IF wordList = <<>> THEN <<>>
    ELSE LET top == CHOOSE i \in 1..Len(wordList) :
                        \A j \in 1..Len(wordList) :
                            RLe(wordList[j].Percent, wordList[i].Percent)
             high == wordList[top].Percent
         IN  SelectSeq(wordList, LAMBDA e : e.Percent = high)
             \o SortByPercent(SelectSeq(wordList, LAMBDA e : e.Percent # high))

\* getTopWords without its filter, its sort and its cut.
getTopWordsUnsorted(counts, total, order) ==
    LET all == RangeOver(counts, order)
    IN  [i \in 1..Len(all) |->
            WordFreq(all[i], counts[all[i]], Rat(counts[all[i]] * 100, total))]

\* Lines 857-876 and 363-382.
getTopWords(counts, total, order) ==
    IF total = 0 THEN <<>>
    ELSE LET kept == SelectSeq(RangeOver(counts, order),
                               LAMBDA w : counts[w] > MinDocFrequency)
             wordList == [i \in 1..Len(kept) |->
                             WordFreq(kept[i], counts[kept[i]],
                                      Rat(counts[kept[i]] * 100, total))]
             sorted == SortByPercent(wordList)
         IN  SubSeq(sorted, 1, IF Len(sorted) < TopN THEN Len(sorted) ELSE TopN)

NoCounts == [w \in {} |-> 0]

NoAccum ==
    [count |-> 0, safeCount |-> 0, scamCount |-> 0,
     safeBodyWordCounts |-> NoCounts, scamBodyWordCounts |-> NoCounts,
     safeSubjectWordCounts |-> NoCounts, scamSubjectWordCounts |-> NoCounts]

\* Lines 886-903 and 384-401: the JSON corpus has no subjects.
Report(a, mode, order) ==
    [SafeStats |->
        [TotalEmails |-> a.safeCount,
         TopBodyWords |-> getTopWords(a.safeBodyWordCounts, a.safeCount, order),
         TopSubjectWords |->
            IF mode = "json" THEN <<>>
            ELSE getTopWords(a.safeSubjectWordCounts, a.safeCount, order)],
     ScamStats |->
        [TotalEmails |-> a.scamCount,
         TopBodyWords |-> getTopWords(a.scamBodyWordCounts, a.scamCount, order),
         TopSubjectWords |->
            IF mode = "json" THEN <<>>
            ELSE getTopWords(a.scamSubjectWordCounts, a.scamCount, order)]]

\* Lines 797-850 and 321-355: one document added to its class.
Accumulate(a, scam, bodyWords, subjectWords) ==
    IF scam
    THEN [a EXCEPT !.count = @ + 1, !.scamCount = @ + 1,
                   !.scamBodyWordCounts = CountDoc(@, bodyWords),
                   !.scamSubjectWordCounts = CountDoc(@, subjectWords)]
    ELSE [a EXCEPT !.count = @ + 1, !.safeCount = @ + 1,
                   !.safeBodyWordCounts = CountDoc(@, bodyWords),
                   !.safeSubjectWordCounts = CountDoc(@, subjectWords)]

(***************************************************************************)
(* SpecTrainer: one run of the trainer over a corpus read row by row       *)
(***************************************************************************)
MaxRows == 4

\* The documents of the corpora: label, subject, body.
Documents ==
    {[label |-> "1", subject |-> <<"Urgent:", "verify">>,
      body |-> <<"Verify", "your", "account", "verify", "2024", "<b>", "ab">>],
     [label |-> " Spam ", subject |-> <<"re", "account">>,
      body |-> <<"account", "suspended", "please">>],
     [label |-> "PHISH", subject |-> <<>>, body |-> BulkBody],
     [label |-> "phish", subject |-> <<"verify">>, body |-> <<"qab", "account">>],
     [label |-> "0", subject |-> <<"meeting">>, body |-> <<"meeting", "account">>],
     [label |-> "phishing", subject |-> <<"meeting", "team">>, body |-> <<"meeting">>]}

\* The lines of a CSV corpus: a document in six columns or in two, or a
\* line the reader cannot parse.
CsvRows ==
    {[broken |-> FALSE,
      record |-> <<<<>>, <<>>, <<>>, d.subject, d.body, <<d.label>>>>] : d \in Documents}
    \cup {[broken |-> FALSE, record |-> <<d.body, <<d.label>>>>] : d \in Documents}
    \cup {[broken |-> TRUE, record |-> <<>>]}

Headers ==
    {<<"sender", "receiver", "date", "Subject", " body ", "label">>,
     <<"c1", "c2", "c3", "c4", "c5", "c6">>,
     <<"text", "class">>,
     <<"msg", "tag">>}

\* The entries of a JSON corpus: an entry that decodes, one whose value has
\* a wrong type, one that is not JSON.
JsonEntries ==
    {[kind |-> "ok", text |-> d.body, label |-> IF isScam(TrimSpace(d.label)) THEN 1 ELSE 0] :
        d \in Documents}
    \cup {[kind |-> "ok", text |-> <<"account", "suspended", "please">>, label |-> 2],
          [kind |-> "type_error", text |-> <<>>, label |-> 1],
          [kind |-> "syntax_error", text |-> <<>>, label |-> 0]}

\* validEnglishWords: empty when the dictionary could not be loaded.
Dictionaries == {{}, {"verify", "account", "suspended", "meeting", "please"}}

NoFile == [exists |-> FALSE, valid |-> FALSE, doc |-> <<>>]

InitTrainer ==
    /\ corpus \in [mode : {"csv"}, header : Headers, dictionary : Dictionaries]
                  \cup [mode : {"json"}, header : {<<>>}, dictionary : Dictionaries]
    /\ trainerPc = "rows"
    /\ accum = NoAccum
    /\ artifact = NoFile
    /\ rows = [read |-> 0, valid |-> 0, scam |-> 0]
    /\ ScoreIdle /\ MimeIdle /\ NetIdle /\ ServerIdle

\* csv.Reader.Read fails on a line it cannot parse and on a record that has
\* not as many fields as the header (FieldsPerRecord is 0).
ReadError(header, row) == row.broken \/ Len(row.record) # Len(header)

\* Line 738.
TooShort(header, record) ==
    Len(record) <= labelIdx(header) \/ Len(record) <= bodyIdx(header)

\* Lines 729-851, one turn of the loop on a line of the file.  A line that
\* is not skipped is indexed with bodyIdx; with bodyIdx = -1 this is an
\* index out of range and the trainer panics.
ReadCSVRow ==
    /\ trainerPc = "rows" /\ corpus.mode = "csv"
    /\ rows.read < MaxRows
    /\ \E row \in CsvRows :
          LET header == corpus.header
              record == row.record
          IN  IF ReadError(header, row) \/ TooShort(header, record)
              THEN /\ rows' = [rows EXCEPT !.read = @ + 1]
                   /\ UNCHANGED <<trainerPc, accum>>
              ELSE IF bodyIdx(header) < 0
              THEN /\ trainerPc' = "panic"
                   /\ accum' = [accum EXCEPT !.count = @ + 1]
                   /\ rows' = [rows EXCEPT !.read = @ + 1, !.valid = @ + 1]
              ELSE LET labelStr == TrimSpace(FieldString(record[labelIdx(header) + 1]))
                       subjectText ==
                           IF subjectIdx(header) # -1 /\ subjectIdx(header) < Len(record)
                           THEN record[subjectIdx(header) + 1] ELSE <<>>
                       bodyText == record[bodyIdx(header) + 1]
                       bodyWords == FindAllWords(ToLower(StripTags(bodyText)))
                       subjWords == FindAllWords(ToLower(subjectText))
                   IN  /\ accum' = Accumulate(accum, isScam(labelStr),
                               SelectSeq(bodyWords,
                                         LAMBDA w : KeepBodyWord(w, corpus.dictionary)),
                               SelectSeq(subjWords, KeepSubjectWord))
                       /\ rows' = [read |-> rows.read + 1, valid |-> rows.valid + 1,
                                   scam |-> rows.scam +
                                       (IF ToLowerLexeme(labelStr) \in {"1", "phish", "spam"}
                                        THEN 1 ELSE 0)]
                       /\ UNCHANGED trainerPc
    /\ UNCHANGED <<corpus, artifact, scoreVars, mimeVars, netVars, serverVars>>

\* Lines 283-356, one turn of the loop on an entry of the file.  After an
\* entry that is not JSON the decoder returns the same error for ever and
\* the loop does not end.
ReadJSONEntry ==
    /\ trainerPc = "rows" /\ corpus.mode = "json"
    /\ rows.read < MaxRows
    /\ \E entry \in JsonEntries :
          IF entry.kind = "syntax_error"
          THEN /\ trainerPc' = "spin"
               /\ rows' = [rows EXCEPT !.read = @ + 1]
               /\ UNCHANGED accum
          ELSE IF entry.kind = "type_error"
          THEN /\ rows' = [rows EXCEPT !.read = @ + 1]
               /\ UNCHANGED <<trainerPc, accum>>
          ELSE LET words == FindAllWords(ToLower(StripTags(entry.text)))
               IN  /\ accum' = Accumulate(accum, entry.label = 1,
                           SelectSeq(words, LAMBDA w : KeepJSONWord(w, corpus.dictionary)),
                           <<>>)
                   /\ rows' = [read |-> rows.read + 1, valid |-> rows.valid + 1,
                               scam |-> rows.scam + (IF entry.label = 1 THEN 1 ELSE 0)]
                   /\ UNCHANGED trainerPc
    /\ UNCHANGED <<corpus, artifact, scoreVars, mimeVars, netVars, serverVars>>

\* Lines 853-916 and 358-414, at the end of the file: the report is built
\* and written.  analyzeJSON divides by the class counts: with an empty
\* class an average is NaN, the encoder refuses it and log.Fatal leaves the
\* file it has created empty.
Finish ==
    /\ trainerPc = "rows"
    /\ IF corpus.mode = "json" /\ (accum.safeCount = 0 \/ accum.scamCount = 0)
       THEN /\ trainerPc' = "fatal"
            /\ artifact' = [exists |-> TRUE, valid |-> FALSE, doc |-> <<>>]
       ELSE /\ trainerPc' = "done"
            /\ \E order \in MapOrders :
                  artifact' = [exists |-> TRUE, valid |-> TRUE,
                               doc |-> EncodeReport(Report(accum, corpus.mode, order))]
    /\ UNCHANGED <<corpus, accum, rows, scoreVars, mimeVars, netVars, serverVars>>

NextTrainer == ReadCSVRow \/ ReadJSONEntry \/ Finish

SpecTrainer == InitTrainer /\ [][NextTrainer]_vars





(***************************************************************************)
(* Claims about the score aggregation (SpecScore)                          *)
(***************************************************************************)
RMin(a, b) == IF RLe(a, b) THEN a ELSE b
RMax(a, b) == IF RLe(a, b) THEN b ELSE a
Clamp(x, lo, hi) == RMax(RInt(lo), RMin(x, RInt(hi)))
InRange(x, lo, hi) == RLe(RInt(lo), x) /\ RLe(x, RInt(hi))

\* C1: whatever penalties analyzeEmail accumulated, Technical is
\* clamp(Base - AuthPassBonus + AuthFailPenalty + Mismatch + NoMX + Disposable,
\* 0, 40) / 40 * 100, Body is clamp(LinguisticPenalty, 0, 50) / 50 * 100 and
\* Subject is clamp(KeywordPenalty + SubjectLinguisticPenalty, 0, 30) / 30 * 100.
C1_SubScores ==
    res # None =>
        LET r == res[1]
            b == r.ScoreBreakdown
            tech == RInt(b.BaseScore - b.AuthPassBonus + b.AuthFailPenalty
                         + b.MismatchPenalty + b.NoMXPenalty + b.DisposablePenalty)
            subj == RAdd(RInt(b.KeywordPenalty), b.SubjectLinguisticPenalty)
        IN  /\ r.TechScore = RMul(RDivInt(Clamp(tech, 0, 40), 40), RInt(100))
            /\ r.BodyScore = RMul(RDivInt(Clamp(b.LinguisticPenalty, 0, 50), 50), RInt(100))
            /\ r.SubjectScore = RMul(RDivInt(Clamp(subj, 0, 30), 30), RInt(100))

\* A call whose technical total is negative and whose body and subject totals
\* exceed their ceilings: all three clamps act.
C1_Witness ==
    /\ res # None
    /\ LET b == res[1].ScoreBreakdown
       IN  /\ b.BaseScore - b.AuthPassBonus + b.AuthFailPenalty + b.MismatchPenalty
                + b.NoMXPenalty + b.DisposablePenalty < 0
           /\ RGt(b.LinguisticPenalty, RInt(50))
           /\ RGt(RAdd(RInt(b.KeywordPenalty), b.SubjectLinguisticPenalty), RInt(30))

\* C2: ScamProbability is min(100, 0.40 * TechScore + 0.35 * BodyScore +
\* 0.25 * SubjectScore), the four scores lie in [0, 100] and SafeProbability
\* is 100 - ScamProbability.
C2_Total ==
    res # None =>
        LET r == res[1]
            weighted == RAdd(RAdd(RDivInt(RMul(r.TechScore, RInt(40)), 100),
                                  RDivInt(RMul(r.BodyScore, RInt(35)), 100)),
                             RDivInt(RMul(r.SubjectScore, RInt(25)), 100))
        IN  /\ r.ScamProbability = RMin(RInt(100), weighted)
            /\ InRange(r.TechScore, 0, 100)
            /\ InRange(r.BodyScore, 0, 100)
            /\ InRange(r.SubjectScore, 0, 100)
            /\ InRange(r.ScamProbability, 0, 100)
            /\ RAdd(r.SafeProbability, r.ScamProbability) = RInt(100)

\* A call whose three sub-scores differ and are not all at an end of the range.
C2_Witness ==
    /\ res # None
    /\ res[1].TechScore = RInt(100)
    /\ RGt(res[1].BodyScore, RInt(0)) /\ RLt(res[1].BodyScore, RInt(100))
    /\ RGt(res[1].SubjectScore, RInt(0)) /\ RLt(res[1].SubjectScore, RInt(100))
    /\ RLt(res[1].ScamProbability, RInt(100))

\* C3: without an Authentication-Results header and without a mismatch, a
\* no-MX or a disposable penalty, BaseScore is 10, AuthFailPenalty and
\* AuthPassBonus are 0 and the Technical sub-score is exactly 25.
C3_NoAuthHeader ==
    (/\ res # None
     /\ req.msg.AuthenticationResults = <<>>
     /\ res[1].ScoreBreakdown.MismatchPenalty = 0
     /\ res[1].ScoreBreakdown.NoMXPenalty = 0
     /\ res[1].ScoreBreakdown.DisposablePenalty = 0)
    => /\ res[1].ScoreBreakdown.BaseScore = 10
       /\ res[1].ScoreBreakdown.AuthFailPenalty = 0
       /\ res[1].ScoreBreakdown.AuthPassBonus = 0
       /\ res[1].TechScore = RInt(25)

\* A message without the header, from a domain with MX records, analysed.
C3_Witness ==
    /\ res # None
    /\ req.msg.AuthenticationResults = <<>>
    /\ res[1].RiskFactors.Domain # ""
    /\ res[1].RiskFactors.HasMXRecords
    /\ res[1].ScoreBreakdown.MismatchPenalty = 0
    /\ res[1].ScoreBreakdown.NoMXPenalty = 0
    /\ res[1].TechScore = RInt(25)


(***************************************************************************)
(* Claims about the server (Spec)                                          *)
(***************************************************************************)
\* The handler holds the result of an analysis.
Analyzed(h) == local[h].result # None

\* The body words analyzeEmail matches the table against, for the message
\* and the network answers the handler analysed.
BodyTokens(h) ==
    LET body == extractEmailBody(local[h].content[1].entity)
    IN  WordSet(ToLower(AnalysisText(CleanBody(body), local[h].net[1])))

\* The statistics file has the shape {safe_stats, scam_stats}.
ReportShaped(file) ==
    file.exists /\ file.valid /\ DOMAIN file.doc = {"safe_stats", "scam_stats"}

HasBodyTrigger(result, w) ==
    \E i \in 1..Len(result.BodyTriggers) :
        result.BodyTriggers[i].Text = <<"Enthaelt", w>>

\* C4 (as stated): after the server has loaded a statistics file of the shape
\* {safe_stats, scam_stats}, every word of scam_stats.top_body_words that
\* is not ignored, has a percent above 7 and occurs among the body words of
\* an analysed email gives a body trigger and a linguistic penalty.
C4_MatchesScamStats ==
    \A h \in DOMAIN local :
        (Analyzed(h) /\ ReportShaped(statsFile[1])) =>
            LET table == statsFile[1].doc.scam_stats.top_body_words
            IN  \A i \in 1..Len(table) :
                    (/\ ~IsIgnored(table[i].word)
                     /\ RGt(table[i].percent, RInt(BodyThreshold))
                     /\ table[i].word \in BodyTokens(h))
                        => /\ HasBodyTrigger(local[h].result[1], table[i].word)
                           /\ RGt(local[h].result[1].ScoreBreakdown.LinguisticPenalty,
                                  RInt(0))

\* The scam-class body table of the statistics file, whichever shape it has.
ScamBodyTable(file) ==
    IF ~file.exists \/ ~file.valid THEN <<>>
    ELSE IF "scam_stats" \in DOMAIN file.doc THEN file.doc.scam_stats.top_body_words
    ELSE IF "top_body_words" \in DOMAIN file.doc THEN file.doc.top_body_words
    ELSE <<>>

InTableAboveThreshold(table, w) ==
    \E i \in 1..Len(table) :
        table[i].word = w /\ RGt(table[i].percent, RInt(BodyThreshold))

\* The control message of scenario 1: same sender, pass-only header, neutral
\* subject and body.
ControlResult(net) ==
    analyzeEmail(globalStats, NeutralHeader, <<"plain", "text">>, net)

\* C5 (as stated): the message of scenario 1 has AuthFailPenalty > 0 and
\* KeywordPenalty > 0, has LinguisticPenalty > 0 when "suspended" is in the
\* scam table above the threshold, and its ScamProbability is strictly
\* greater than that of the control message under the same DNS answers.
C5_ScenarioOne ==
    \A h \in DOMAIN local :
        (Analyzed(h) /\ local[h].content[1] = ScenarioEml) =>
            LET r == local[h].result[1]
            IN  /\ r.ScoreBreakdown.AuthFailPenalty > 0
                /\ r.ScoreBreakdown.KeywordPenalty > 0
                /\ InTableAboveThreshold(ScamBodyTable(statsFile[1]), "suspended")
                      => RGt(r.ScoreBreakdown.LinguisticPenalty, RInt(0))
                /\ RGt(r.ScamProbability, ControlResult(local[h].net[1]).ScamProbability)

\* C5 without the linguistic penalty: what holds of scenario 1 whatever the
\* server has loaded.
C5_ScenarioOneHeaders ==
    \A h \in DOMAIN local :
        (Analyzed(h) /\ local[h].content[1] = ScenarioEml) =>
            LET r == local[h].result[1]
            IN  /\ r.ScoreBreakdown.AuthFailPenalty > 0
                /\ r.ScoreBreakdown.KeywordPenalty > 0
                /\ RGt(r.ScamProbability, ControlResult(local[h].net[1]).ScamProbability)

\* The sub-scores, the total and the triggers of a result.
Scores(r) ==
    <<r.TechScore, r.BodyScore, r.SubjectScore, r.ScamProbability, r.SafeProbability,
      r.ScoreBreakdown, r.BodyTriggers, r.SubjectTriggers>>

\* The DNS and DoH answers among the network answers.
DnsAnswers(net) == <<net.mx, net.spf, net.dmarc, net.doh, net.sys>>

SameInputsSameScores ==
    \A h1, h2 \in DOMAIN local :
        (/\ Analyzed(h1) /\ Analyzed(h2)
         /\ local[h1].content = local[h2].content
         /\ local[h1].net = local[h2].net)
            => Scores(local[h1].result[1]) = Scores(local[h2].result[1])

ReadAccess == {"idx_list", "mem_lookup", "an_list"}
WriteAccess == {"cl_clear", "up_store"}

\* C7: a goroutine about to look up or list memoryStore holds memoryMutex
\* for reading and no goroutine holds it for writing; a goroutine about to
\* store into or clear memoryStore holds memoryMutex for writing, no
\* goroutine holds it for reading, and no other goroutine is about to access
\* memoryStore.
C7_GuardedAccess ==
    pc # <<>> =>
        \A p \in DOMAIN pc :
            /\ pc[p] \in ReadAccess =>
                  p \in memoryMutex.readers /\ memoryMutex.writer = None
            /\ pc[p] \in WriteAccess =>
                  /\ memoryMutex.writer = <<p>> /\ memoryMutex.readers = {}
                  /\ \A q \in DOMAIN pc \ {p} : pc[q] \notin ReadAccess \cup WriteAccess

\* Two handlers list and look up the cache at once, both holding the read
\* lock, while the cleanup goroutine waits for the write lock.
C7_Witness ==
    /\ pc # <<>>
    /\ pc["h1"] = "an_list" /\ pc["h2"] = "mem_lookup"
    /\ pc["cleanup"] = "cl_lock"
    /\ memoryMutex.readers = {"h1", "h2"}
    /\ memoryStore # <<>>

\* The statistics file was missing, or Decode returned an error on it.
LoadFailed(file) == ~file.exists \/ DecodeFails(file)

\* C11 (as stated): when the statistics file is missing or cannot be decoded
\* at startup, every analysed email has LinguisticPenalty = 0 and
\* SubjectLinguisticPenalty = 0, a Body sub-score of 0 and a Subject
\* sub-score that the fixed keywords alone determine.
C11_ZeroLinguistic ==
    \A h \in DOMAIN local :
        (Analyzed(h) /\ LoadFailed(statsFile[1])) =>
            LET r == local[h].result[1]
                b == r.ScoreBreakdown
                kw == IF b.KeywordPenalty > SubjectMax THEN SubjectMax
                      ELSE b.KeywordPenalty
            IN  /\ b.LinguisticPenalty = RInt(0)
                /\ b.SubjectLinguisticPenalty = RInt(0)
                /\ r.BodyScore = RInt(0)
                /\ r.SubjectScore = Scale(RInt(kw), SubjectMax)

(***************************************************************************)
(* Claims about the trainer (SpecTrainer)                                  *)
(***************************************************************************)
Classes == {"safe_stats", "scam_stats"}
Fields == {"top_body_words", "top_subject_words"}

\* C8: in the file the trainer has written, from a CSV or a JSON corpus,
\* every entry of every list of either class has count > 2 and percent =
\* count / total_emails of its class * 100, with 0 < percent <= 100; every
\* list is sorted by percent, non-increasing, and has at most 100 entries.
C8_ArtifactEntries ==
    trainerPc = "done" =>
        \A class \in Classes, field \in Fields :
            LET total == artifact.doc[class].total_emails
                list == artifact.doc[class][field]
            IN  /\ Len(list) <= 100
                /\ \A i \in 1..Len(list) :
                      /\ list[i].count > 2
                      /\ list[i].percent = RMul(Rat(list[i].count, total), RInt(100))
                      /\ RGt(list[i].percent, RInt(0))
                      /\ RLe(list[i].percent, RInt(100))
                      /\ i < Len(list) => RLe(list[i + 1].percent, list[i].percent)

\* The file written from a CSV corpus of four scam rows: 101 words have a
\* count above 2 and the list holds 100 of them, the word of all four rows
\* first with 100 percent, words of three rows after it with 75 percent.
C8_Witness ==
    /\ trainerPc = "done" /\ corpus.mode = "csv"
    /\ artifact.doc.scam_stats.total_emails = 4
    /\ Cardinality({w \in DOMAIN accum.scamBodyWordCounts :
                       accum.scamBodyWordCounts[w] > 2}) = 101
    /\ Len(artifact.doc.scam_stats.top_body_words) = 100
    /\ artifact.doc.scam_stats.top_body_words[1] =
          [word |-> "qab", count |-> 4, percent |-> RInt(100)]
    /\ artifact.doc.scam_stats.top_body_words[100].percent = RInt(75)

\* The lists of word counts of a class.
ClassCounts(class) ==
    IF class = "scam_stats"
    THEN {accum.scamBodyWordCounts, accum.scamSubjectWordCounts}
    ELSE {accum.safeBodyWordCounts, accum.safeSubjectWordCounts}

ClassTotal(class) == IF class = "scam_stats" THEN accum.scamCount ELSE accum.safeCount

\* C9: as long as the trainer has not panicked, after any rows read the
\* totals of the two classes add up to the number of rows that were not
\* skipped, the scam total is the number of those rows whose label, trimmed
\* and in lower case, is 1, phish or spam, the safe total the number of the
\* others, and no word's count in a class exceeds the total of the class;
\* the file written carries these totals.
C9_ClassPartition ==
    trainerPc \in {"rows", "spin", "fatal", "done"} =>
        /\ accum.safeCount + accum.scamCount = rows.valid
        /\ accum.scamCount = rows.scam
        /\ accum.safeCount = rows.valid - rows.scam
        /\ \A class \in Classes :
              \A counts \in ClassCounts(class) :
                  \A w \in DOMAIN counts : counts[w] <= ClassTotal(class)
        /\ trainerPc = "done" =>
              /\ artifact.doc.safe_stats.total_emails = accum.safeCount
              /\ artifact.doc.scam_stats.total_emails = accum.scamCount
              /\ \A class \in Classes, field \in Fields :
                    \A i \in 1..Len(artifact.doc[class][field]) :
                        artifact.doc[class][field][i].count
                            <= artifact.doc[class].total_emails

\* A CSV corpus of four lines, one of them skipped, two scam and one safe,
\* with a word that occurs in every scam row, one of them holding it twice.
C9_Witness ==
    /\ trainerPc = "done" /\ corpus.mode = "csv"
    /\ rows = [read |-> 4, valid |-> 3, scam |-> 2]
    /\ accum.scamCount = 2 /\ accum.safeCount = 1
    /\ "verify" \in DOMAIN accum.scamBodyWordCounts
    /\ "account" \in DOMAIN accum.scamBodyWordCounts
    /\ accum.scamBodyWordCounts["verify"] = 1
    /\ accum.scamBodyWordCounts["account"] = 2

ToSet(s) == {s[i] : i \in 1..Len(s)}

\* The count a map holds for a word, 0 for a word it does not hold.
CountOf(counts, w) == IF w \in DOMAIN counts THEN counts[w] ELSE 0

\* The map of a class and a field.
WordCounts(a, scam, field) ==
    IF field = "top_body_words"
    THEN IF scam THEN a.scamBodyWordCounts ELSE a.safeBodyWordCounts
    ELSE IF scam THEN a.scamSubjectWordCounts ELSE a.safeSubjectWordCounts

\* The documents a turn of the loop can have read from the corpus: the class
\* and, per field, the filtered token set.
CorpusDocs ==
    IF corpus.mode = "csv"
    THEN {[scam |-> isScam(TrimSpace(FieldString(row.record[labelIdx(corpus.header) + 1]))),
           top_body_words |->
               {w \in ToSet(FindAllWords(ToLower(StripTags(
                                row.record[bodyIdx(corpus.header) + 1])))) :
                    KeepBodyWord(w, corpus.dictionary)},
           top_subject_words |->
               IF subjectIdx(corpus.header) = -1 THEN {}
               ELSE {w \in ToSet(FindAllWords(ToLower(
                                row.record[subjectIdx(corpus.header) + 1]))) :
                        KeepSubjectWord(w)}] :
            row \in {r \in CsvRows : /\ ~ReadError(corpus.header, r)
                                      /\ ~TooShort(corpus.header, r.record)
                                      /\ bodyIdx(corpus.header) >= 0}}
    ELSE {[scam |-> entry.label = 1,
           top_body_words |->
               {w \in ToSet(FindAllWords(ToLower(StripTags(entry.text)))) :
                    KeepJSONWord(w, corpus.dictionary)},
           top_subject_words |-> {}] :
            entry \in {e \in JsonEntries : e.kind = "ok"}}

\* The maps after the step are the maps before it with document d added:
\* in the class of d every word of the token set of a field has its count
\* raised by exactly 1, and no other count changes.
AddsDocument(d) ==
    \A scam \in BOOLEAN, field \in Fields :
        LET before == WordCounts(accum, scam, field)
            after == WordCounts(accum', scam, field)
        IN  \A w \in DOMAIN before \cup DOMAIN after \cup d[field] :
                CountOf(after, w) =
                    CountOf(before, w) + (IF scam = d.scam /\ w \in d[field] THEN 1 ELSE 0)

\* C24: the word maps hold document frequencies.  They are empty before the
\* first row, and every row read either leaves every map as it was (a row
\* skipped) or adds one document: the count of a word grows by exactly 1 in
\* the maps of the row's class when the filtered token set of the field
\* contains the word, however often the word occurs in the row, and by 0
\* otherwise.  By induction over the rows the count of a word is the number
\* of rows of the class whose token set contains it.
C24_DocumentFrequency ==
    /\ [](rows.read = 0 => \A scam \in BOOLEAN, field \in Fields :
                                WordCounts(accum, scam, field) = NoCounts)
    /\ [][rows' # rows =>
              \/ \A scam \in BOOLEAN, field \in Fields :
                     WordCounts(accum', scam, field) = WordCounts(accum, scam, field)
              \/ \E d \in CorpusDocs : AddsDocument(d)]_vars

\* Two scam rows of a CSV corpus: the body of one holds verify twice and the
\* subject of both holds it, both bodies hold account once.
C24_Witness ==
    /\ corpus.mode = "csv" /\ trainerPc = "rows"
    /\ rows = [read |-> 2, valid |-> 2, scam |-> 2]
    /\ DOMAIN accum.scamBodyWordCounts = {"verify", "account", "qab"}
    /\ CountOf(accum.scamBodyWordCounts, "verify") = 1
    /\ CountOf(accum.scamBodyWordCounts, "account") = 2
    /\ CountOf(accum.scamSubjectWordCounts, "verify") = 2

\* The step reads a row that is not accepted: a CSV line the reader cannot
\* parse or with too few columns, a JSON entry that does not decode.
ReadsMalformedRow == rows'.read = rows.read + 1 /\ rows'.valid = rows.valid

\* C25 (as stated): a malformed row is skipped: the step that reads it
\* changes no class total and no frequency map, and the loop goes on, so
\* that the rows after it are read and the end of the input, where the
\* artifact is written, is still reached.
C25_MalformedRowSkipped ==
    [][ReadsMalformedRow => (accum' = accum /\ trainerPc' = "rows")]_vars

\* The words of the lists of a field in the file written.
PersistedWords(field) ==
    UNION {{artifact.doc[class][field][i].word :
                i \in 1..Len(artifact.doc[class][field])} : class \in Classes}

\* C26 (as stated): in the file the trainer has written, from a CSV or a
\* JSON corpus, no word of a list is a stop word or one of the words of
\* phishingIrrelevant, no body word is shorter than 3 and no subject word
\* shorter than 2.
C26_NoExcludedWords ==
    trainerPc = "done" =>
        /\ \A field \in Fields :
              \A w \in PersistedWords(field) :
                  w \notin stopWords /\ w \notin phishingIrrelevant
        /\ \A w \in PersistedWords("top_body_words") : Len(w) >= 3
        /\ \A w \in PersistedWords("top_subject_words") : Len(w) >= 2

\* C28 (as stated): analyzeCSV never indexes a row out of its range,
\* whatever the header and the length of the row: no run of the trainer
\* ends in the panic of an index out of range.
C28_NoIndexOutOfRange == trainerPc # "panic"

\* C30 (as stated): the file written is determined by the rows read: it is
\* the report of the accumulated counts whatever the order in which the
\* range loop of getTopWords hands out the words of a map, the order of the
\* entries of equal percent and the words that make the cut of 100 included.
C30_Deterministic ==
    trainerPc = "done" =>
        \A order \in MapOrders :
            artifact.doc = EncodeReport(Report(accum, corpus.mode, order))

(***************************************************************************)
(* Claims about the MIME body extractor (SpecMime)                         *)
(***************************************************************************)
\* A single-part plain-text message: the Content-Type parses to text/plain.
SinglePartPlain(m) ==
    LET mt == ParseMediaType(m.ContentType)
    IN  ~mt.err /\ mt.mediaType = "text/plain"

\* The i-th entry of mimeOut is an extraction, and the first one since the
\* message was parsed.
FirstRun(i) ==
    /\ mimeOut[i].op = "extract"
    /\ i = 1 \/ mimeOut[i - 1].op = "parse"

\* The i-th entry of mimeOut is an extraction from a message an earlier
\* extraction has already been run on.
RepeatedRun(i) ==
    /\ mimeOut[i].op = "extract"
    /\ i > 1 /\ mimeOut[i - 1].op = "extract"

SoftfailIsFail(lowerAuth, mech) ==
    IF Contains(lowerAuth, mech \o "=fail") \/ Contains(lowerAuth, mech \o "=softfail")
    THEN "fail"
    ELSE IF Contains(lowerAuth, mech \o "=pass") THEN "pass" ELSE "unknown"

\* C12 (as stated): with an Authentication-Results header, each of SPF, DKIM
\* and DMARC is in exactly one of fail / pass / unknown, read without regard
\* to case and with softfail treated alike for the three; a fail adds 30, 30
\* or 20 to AuthFailPenalty, a pass adds 10, 10 or 5 to AuthPassBonus, unknown
\* adds nothing, and BaseScore stays 0.
C12_AuthClassification ==
    (res # None /\ req.msg.AuthenticationResults # <<>>) =>
        LET lowerAuth == ToLower(req.msg.AuthenticationResults)
            spf == SoftfailIsFail(lowerAuth, "spf")
            dkim == SoftfailIsFail(lowerAuth, "dkim")
            dmarc == SoftfailIsFail(lowerAuth, "dmarc")
            rf == res[1].RiskFactors
            b == res[1].ScoreBreakdown
        IN  /\ rf.SPFStatus = spf /\ rf.DKIMStatus = dkim /\ rf.DMARCStatus = dmarc
            /\ b.AuthFailPenalty = (IF spf = "fail" THEN 30 ELSE 0)
                                   + (IF dkim = "fail" THEN 30 ELSE 0)
                                   + (IF dmarc = "fail" THEN 20 ELSE 0)
            /\ b.AuthPassBonus = (IF spf = "pass" THEN 10 ELSE 0)
                                 + (IF dkim = "pass" THEN 10 ELSE 0)
                                 + (IF dmarc = "pass" THEN 5 ELSE 0)
            /\ b.BaseScore = 0

\* The domain of the address a header holds.
HeaderDomain(header) == getDomain(extractEmail(decodeHeader(header)))

\* C13 (as stated): FromReturnPathDiff (25) and ReplyToDiff (20) are set only
\* when the From domain and the domain of the other header are both
\* non-empty and differ; MismatchPenalty is the sum of the penalties of the
\* flags that are set.
C13_MismatchBothNonEmpty ==
    res # None =>
        LET fromDomain == HeaderDomain(req.msg.From)
            rpDomain == HeaderDomain(req.msg.ReturnPath)
            rtDomain == HeaderDomain(req.msg.ReplyTo)
            rf == res[1].RiskFactors
        IN  /\ rf.FromReturnPathDiff =>
                    (fromDomain # "" /\ rpDomain # "" /\ fromDomain # rpDomain)
            /\ rf.ReplyToDiff =>
                    (fromDomain # "" /\ rtDomain # "" /\ fromDomain # rtDomain)
            /\ res[1].ScoreBreakdown.MismatchPenalty =
                    (IF rf.FromReturnPathDiff THEN 25 ELSE 0)
                    + (IF rf.ReplyToDiff THEN 20 ELSE 0)

\* How often a value occurs in a sequence.
Occurrences(seq, x) == Cardinality({i \in 1..Len(seq) : seq[i] = x})

\* C14: every keyword of the fixed list that occurs in the decoded subject,
\* case-insensitively and as a substring, is recorded exactly once, no other
\* word is recorded, and KeywordPenalty is 15 times the number of recorded
\* keywords, without a cap.
C14_KeywordPenalty ==
    res # None =>
        LET subject == ToLower(decodeHeader(req.msg.Subject))
            recorded == res[1].RiskFactors.Suspiciouskeywords
        IN  /\ \A i \in 1..Len(suspiciousKeywords) :
                    Occurrences(recorded, suspiciousKeywords[i]) =
                        IF Contains(subject, suspiciousKeywords[i]) THEN 1 ELSE 0
            /\ \A i \in 1..Len(recorded) :
                    Occurrences(suspiciousKeywords, recorded[i]) = 1
            /\ res[1].ScoreBreakdown.KeywordPenalty = 15 * Len(recorded)

\* A subject with three keywords, one of them inside a longer word: the
\* penalty is above every sub-score ceiling.
C14_Witness ==
    /\ res # None
    /\ req.msg.Subject = <<"Urgent:", "verify", "your", "account">>
    /\ Len(res[1].RiskFactors.Suspiciouskeywords) = 3
    /\ res[1].ScoreBreakdown.KeywordPenalty = 45

RECURSIVE RSum(_)
RSum(seq) == IF seq = <<>> THEN RInt(0) ELSE RAdd(Head(seq), RSum(Tail(seq)))

\* The body words of the call: the letter runs of three letters or more of
\* the lower-cased text that is analysed.
CallBodyTokens == WordSet(ToLower(AnalysisText(CleanBody(req.body), req.net)))

\* The body-table entries that count: percent above 7, word among the body
\* words, word not ignored.
BodyHits ==
    SelectSeq(req.stats.TopBodyWords,
              LAMBDA e : /\ RGt(e.Percent, RInt(7))
                         /\ e.Word \in CallBodyTokens
                         /\ ~IsIgnored(e.Word))

\* The penalty of shouting the call added.
ShoutingPenalty ==
    IF RGt(res[1].RiskFactors.ShoutingScore, RInt(25)) THEN RInt(15) ELSE RInt(0)

TableTriggers(triggers) == SelectSeq(triggers, LAMBDA t : t.Text[1] = "Enthaelt")

CallSubjectTokens == WordSet(ToLower(decodeHeader(req.msg.Subject)))

\* The subject-table entries with percent above 5 whose word is a subject
\* word.
SubjectHits ==
    SelectSeq(req.stats.TopSubjectWords,
              LAMBDA e : RGt(e.Percent, RInt(5)) /\ e.Word \in CallSubjectTokens)

\* The same call against a statistics table without subject entries.
WithoutSubjectTable ==
    analyzeEmail([req.stats EXCEPT !.TopSubjectWords = <<>>], req.msg, req.body, req.net)

\* What the entries of hits do when each adds percent / 3 to the subject
\* linguistic penalty and nothing to the body.
SubjectEffect(hits) ==
    LET r == res[1]
        b == r.ScoreBreakdown
        penalty == RSum([i \in 1..Len(hits) |-> RDivInt(hits[i].Percent, 3)])
    IN  /\ b.SubjectLinguisticPenalty = penalty
        /\ r.SubjectScore =
                Scale(RMin(RAdd(RInt(b.KeywordPenalty), penalty), RInt(30)), 30)
        /\ [i \in 1..Len(r.SubjectTriggers) |-> r.SubjectTriggers[i].Text]
           = [i \in 1..Len(hits) |-> <<"Betreff:", hits[i].Word>>]
        /\ \A i \in 1..Len(r.BodyTriggers) : r.BodyTriggers[i].Text[1] # "Betreff:"
        /\ LET w == WithoutSubjectTable
           IN  /\ b.LinguisticPenalty = w.ScoreBreakdown.LinguisticPenalty
               /\ r.BodyScore = w.BodyScore
               /\ r.BodyTriggers = w.BodyTriggers

BodyLetters == SumLetters(CleanBody(req.body))
BodyUpper == SumUpper(CleanBody(req.body))

\* Upper-case letters are more than 25 percent of the letters.
IsShouting == BodyLetters > 0 /\ BodyUpper * 100 > 25 * BodyLetters

ShoutingTriggers(triggers) == SelectSeq(triggers, LAMBDA t : t.Text[1] = "Exzessive")

NetStepsAgree ==
    netPc = "done" => netOut[1] = NetworkAnalysis(netIn[1].domain, netIn[1].net)

\* C18: with a non-empty From domain, NoMXPenalty is 50 and HasMXRecords is
\* false iff the MX lookup failed or returned no records, else they are 0 and
\* true; with an empty From domain no lookup is sent, DomainTrustScore and
\* BlacklistStatus are "Unknown" and NoMXPenalty is 0.
C18_MXAndEmptyDomain ==
    LET domain == netIn[1].domain
        mx == netIn[1].net.mx
        out == netOut[1]
    IN  /\ domain = "" => lookups = <<>>
        /\ netPc = "done" =>
              IF domain # ""
              THEN IF mx \in {"error", "empty"}
                   THEN out.NoMXPenalty = 50 /\ ~out.HasMXRecords
                   ELSE out.NoMXPenalty = 0 /\ out.HasMXRecords
              ELSE /\ out.DomainTrustScore = "Unknown"
                   /\ out.BlacklistStatus = "Unknown"
                   /\ out.NoMXPenalty = 0
                   /\ ~out.HasMXRecords

\* The checks have ended for a domain whose MX lookup returned no records
\* and no error.
C18_Witness ==
    /\ netPc = "done"
    /\ netIn[1].domain = "bank.com"
    /\ netIn[1].net.mx = "empty"
    /\ netOut[1].NoMXPenalty = 50
    /\ Len(lookups) >= 4

SentKinds == {lookups[i].kind : i \in 1..Len(lookups)}

\* C19 (as stated): DoH NXDOMAIN gives "Clean"; a DoH address other than
\* the sentinel gives "Listed"; the sentinel or any DoH failure (transport
\* error, status other than 200, undecodable or non-answer response) leads
\* to a system lookup of the same name, read as no-such-host -> "Clean",
\* address -> "Listed", sentinel or other error -> an error status; "Clean"
\* is never returned without an NXDOMAIN-equivalent answer of one resolver.
C19_FallbackChain ==
    (netPc = "done" /\ netIn[1].domain # "") =>
        LET doh == netIn[1].net.doh
            sys == netIn[1].net.sys
            status == netOut[1].BlacklistStatus
        IN  /\ doh = "nxdomain" => (status = "Clean" /\ "Host" \notin SentKinds)
            /\ doh = "address" => (status = "Listed" /\ "Host" \notin SentKinds)
            /\ doh \notin {"nxdomain", "address"} =>
                  /\ "Host" \in SentKinds
                  /\ sys = "no_such_host" => status = "Clean"
                  /\ sys = "address" => status = "Listed"
                  /\ sys \in {"sentinel", "other_error"} =>
                        status \in {"Error", "Error (Blocked)"}
            /\ status = "Clean" =>
                  \/ doh = "nxdomain"
                  \/ "Host" \in SentKinds /\ sys = "no_such_host"

\* C20, the part about what is sent: no lookup is sent twice, and the
\* system lookup is sent only when the DoH query was sent before it and has
\* ended.
NoLookupTwice ==
    /\ \A i, j \in 1..Len(lookups) : lookups[i] = lookups[j] => i = j
    /\ \A i \in 1..Len(lookups) :
          lookups[i].kind = "Host" =>
              /\ \E j \in 1..(i - 1) : lookups[j].kind = "DoH"
              /\ netPc # "doh"

\* Every signal the checks set holds one of its final values.
TerminalStatuses ==
    /\ netPc = "done"
    /\ netOut[1].DomainTrustScore \in {"Trustworthy", "Neutral", "Unknown"}
    /\ netOut[1].BlacklistStatus \in
            {"Clean", "Listed", "Error", "Error (Blocked)", "Unknown"}

\* C20: within one call the MX lookup, the two TXT lookups and the DoH
\* query are sent at most once each, the system lookup at most once and
\* only after the DoH query has ended, nothing is sent again after a
\* failure, and the call comes to an end with a final value for each signal.
C20_AtMostOnceAndEnds == [](NoLookupTwice) /\ <>(TerminalStatuses)

\* The checks have ended after every lookup failed: five lookups, each sent
\* once, the system lookup last.
C20_Witness ==
    /\ netPc = "done"
    /\ netIn[1].net.mx = "error"
    /\ netIn[1].net.doh = "transport_error"
    /\ netIn[1].net.sys = "other_error"
    /\ Len(lookups) = 5
    /\ lookups[5].kind = "Host"

(***************************************************************************)
(* Claims about parseMultipart (SpecMime)                                  *)
(***************************************************************************)
\* A multipart message whose body is delimited with the declared boundary.
MultipartMessage(m) ==
    LET mt == ParseMediaType(m.ContentType)
    IN  ~mt.err /\ IsMultipart(mt.mediaType)
        /\ mt.boundary # "" /\ m.boundary = mt.boundary

AllReadable(m) == \A i \in 1..Len(m.parts) : ~m.parts[i].malformed

\* What a part of a multipart message contributes: the decoded content of a
\* leaf part, the extraction result of a nested multipart part.
PartContent(p) ==
    LET mt == ParseMediaType(p.ContentType)
        q == NextPart(p)
    IN  IF IsMultipart(mt.mediaType) THEN parseMultipart(p, mt.boundary)
        ELSE decodeContent(q.text, q.CTE)

IsHtmlPart(p) ==
    LET mt == ParseMediaType(p.ContentType)
    IN  \/ mt.mediaType = "text/html"
        \/ IsMultipart(mt.mediaType) /\ LooksLikeHTML(PartContent(p))

IsPlainPart(p) == ParseMediaType(p.ContentType).mediaType = "text/plain"

HtmlIndexes(m) == {i \in 1..Len(m.parts) : IsHtmlPart(m.parts[i])}
PlainIndexes(m) == {i \in 1..Len(m.parts) : IsPlainPart(m.parts[i])}

\* C21 (as stated): on a multipart message all of whose parts can be read,
\* the first extraction returns the content of an HTML part (a text/html
\* sibling or a nested result recognised as HTML) whenever there is one,
\* whatever the order of the parts, and otherwise the content of the first
\* text/plain part, a later text/plain sibling never replacing an earlier
\* one.
C21_HtmlElseFirstPlain ==
    LET m == mimeMsg[1]
    IN  (MultipartMessage(m) /\ AllReadable(m)) =>
            \A i \in 1..Len(mimeOut) :
                FirstRun(i) =>
                    /\ HtmlIndexes(m) # {} =>
                          \E h \in HtmlIndexes(m) :
                              mimeOut[i].out = PartContent(m.parts[h])
                    /\ (HtmlIndexes(m) = {} /\ PlainIndexes(m) # {}) =>
                          mimeOut[i].out = PartContent(m.parts[Min(PlainIndexes(m))])

\* The message without the parts the multipart reader cannot read.
WithoutMalformed(m) ==
    [m EXCEPT !.parts = SelectSeq(m.parts, LAMBDA p : ~p.malformed)]

HasMalformedPart(m) == \E i \in 1..Len(m.parts) : m.parts[i].malformed

\* C22 (as stated): on a multipart message with a part that cannot be read,
\* the first extraction returns what it returns on the same message without
\* that part: the unreadable part is skipped on its own and the parts after
\* it are still examined.
C22_MalformedPartSkipped ==
    LET m == mimeMsg[1]
    IN  (MultipartMessage(m) /\ HasMalformedPart(m)) =>
            \A i \in 1..Len(mimeOut) :
                FirstRun(i) =>
                    mimeOut[i].out = extractEmailBody(WithoutMalformed(
                                         [m EXCEPT !.drained = FALSE]))

\* C23 (as stated): the recursion of parseMultipart is bounded by a fixed
\* depth that does not grow with the nesting of the input: in no extraction
\* does the recursion reach the depth of the most deeply nested message.
C23_DepthGuard ==
    \A i \in 1..Len(mimeOut) : mimeOut[i].depth < MaxNesting

(***************************************************************************)
(* Claims about the upload cache and its cleanup (Spec)                    *)
(***************************************************************************)
\* What a lookup of key in the store yields.
Stored(store, key) == IF key \in DOMAIN store THEN <<store[key]>> ELSE None

\* The handlers that store their upload in this step.
Storing == {h \in Handlers : pc[h] = "up_store" /\ pc'[h] = "up_unlock"}

\* A step changes the cache only as a whole: the cleanup empties it in one
\* step, an upload sets the entry of its file name and leaves every other
\* entry as it was, and no other step changes it.
CacheStep ==
    IF pc["cleanup"] = "cl_clear" /\ pc'["cleanup"] = "cl_unlock"
    THEN memoryStore' = <<>>
    ELSE \A key \in FileNames \cup DOMAIN memoryStore \cup DOMAIN memoryStore' :
            Stored(memoryStore', key) =
                IF \E h \in Storing : local[h].filename = key
                THEN (LET h == CHOOSE g \in Storing : local[g].filename = key
                      IN  local[h].content)
                ELSE Stored(memoryStore, key)

\* What a request for memory:<key> has read is what the cache holds under
\* the key for as long as the request holds the lock.
LookupAgrees ==
    \A h \in Handlers :
        pc[h] = "mem_runlock" => local[h].content = Stored(memoryStore, local[h].key)

\* A request for memory:<key> that leaves the lookup ends with 404 when the
\* cache holds nothing under the key, and else goes on to parse the content
\* the cache holds under it, the entry stored last.
LookupOutcome ==
    \A h \in Handlers :
        (pc[h] = "mem_runlock" /\ pc'[h] # "mem_runlock") =>
            IF local[h].key \in DOMAIN memoryStore
            THEN /\ pc'[h] = "parse"
                 /\ local'[h].content = <<StripMbox(memoryStore[local[h].key])>>
            ELSE pc'[h] = "idle" /\ local'[h].status = 404

OtherSignals(r) ==
    [f \in DOMAIN r.RiskFactors \
              {"DomainTrustScore", "BlacklistStatus", "LiveSPFRecord",
               "LiveDMARCRecord", "Domain"} |-> r.RiskFactors[f]]

SubScores(r) == <<r.TechScore, r.BodyScore, r.SubjectScore, r.ScamProbability>>

\* The answers of the network with no SPF and no DMARC record found and the
\* domain not listed.
CleanAnswers(net) ==
    [net EXCEPT !.spf = "", !.dmarc = "", !.doh = "nxdomain", !.sys = "no_such_host"]

\* The message sent from the other of the two sender domains; a message
\* without sender has no domain to look up and stays as it is.
OtherSender(msg) ==
    [msg EXCEPT !.From =
        IF msg.From = <<"Bob", "<", "bob", "@", "paypal.com", ">">>
        THEN <<"Bob", "<", "bob", "@", "Bank.COM", ">">>
        ELSE IF msg.From = <<"Bob", "<", "bob", "@", "Bank.COM", ">">>
        THEN <<"Bob", "<", "bob", "@", "paypal.com", ">">>
        ELSE msg.From]

\* C29: the reputation fields do not influence the score.  The email of the
\* call and the same email with no SPF or DMARC record published and its
\* domain clean differ in no other signal and have the same three sub-scores
\* and the same ScamProbability; so do the email and the one sent from the
\* other domain (trusted instead of neutral or the reverse) whenever the two
\* differ in no other signal; and DisposablePenalty is 0.
C29_ReputationNotScored ==
    res # None =>
        LET r == res[1]
            clean == analyzeEmail(req.stats, req.msg, req.body, CleanAnswers(req.net))
            other == analyzeEmail(req.stats, OtherSender(req.msg), req.body, req.net)
        IN  /\ OtherSignals(clean) = OtherSignals(r)
            /\ SubScores(clean) = SubScores(r)
            /\ OtherSignals(other) = OtherSignals(r) => SubScores(other) = SubScores(r)
            /\ r.ScoreBreakdown.DisposablePenalty = 0

\* A sender of a trusted domain that the blacklist lists and that publishes
\* SPF and DMARC records: the email has the scores of the same email from
\* the neutral domain bank.com.
C29_Witness ==
    /\ res # None
    /\ res[1].RiskFactors.DomainTrustScore = "Trustworthy"
    /\ res[1].RiskFactors.BlacklistStatus = "Listed"
    /\ res[1].RiskFactors.LiveSPFRecord = "v=spf1 -all"
    /\ res[1].RiskFactors.LiveDMARCRecord = "v=DMARC1; p=reject"
    /\ LET other == analyzeEmail(req.stats, OtherSender(req.msg), req.body, req.net)
       IN  /\ other.RiskFactors.DomainTrustScore = "Neutral"
           /\ OtherSignals(other) = OtherSignals(res[1])
           /\ SubScores(other) = SubScores(res[1])

====
